---- MODULE Spec2Model ----
(***************************************************************************)
(* Model of ai-governance-mcp: the audit ledger (database.py), the         *)
(* detection and policy functions (patterns.py, policies.py) and the       *)
(* tool handlers of the server (server.py).                                *)
(*                                                                         *)
(* Encoding.  A text is a sequence of one-character strings.  Python's     *)
(* None is "None" for a string-valued field, NoTime for a timestamp and    *)
(* NoText for a text.  A dictionary is a function whose DOMAIN is the set  *)
(* of its keys.  SHA-256 is modelled as an ideal (injective) hash: the     *)
(* digest of a JSON string is the tuple <<"sha256", that string>>.         *)
(***************************************************************************)
EXTENDS Integers, Sequences, FiniteSets, TLC

\* ------------------------------------------------------------- bounds
NumThreads == 2        \* callers (threads) sharing one GovernanceDatabase
MaxCalls == 2          \* calls issued in one behaviour
MaxTime == 2           \* timestamps of the rows of an existing database file
MaxRows == 2           \* rows of an existing database file
MaxViolations == 3     \* violations in a list handed to the decision
MaxPromptLen == 12     \* max_prompt_length (10000 in the source), scaled to the model's texts

Threads == 1..NumThreads

\* ------------------------------------------------------------- values
None == "None"
NoTime == 0
NoText == <<"None">>
EmptyDict == <<>>
Genesis == <<"genesis">>
NoThread == 0
NoConnection == <<>>

Get(d, k, default) == IF k \in DOMAIN d THEN d[k] ELSE default

\* json.dumps / json.loads of a list or a dictionary of strings: a tagged
\* copy of the value, read back by json.loads.
JsonDumps(x) == <<"json", x>>
JsonLoads(s) == s[2]

\* hashlib.sha256(s.encode()).hexdigest(), an ideal hash.
Sha256(s) == <<"sha256", s>>

Reverse(s) == [i \in 1..Len(s) |-> s[Len(s) + 1 - i]]

\* ------------------------------------------------------------- tables
\* PII_PATTERNS, EXTENDED_PATTERNS (patterns.py), POLICY_RULES and
\* EXTENDED_POLICIES (policies.py) in declaration order.  A regular expression
\* is named ("pii:<type>", "<rule>#<n>") and stands for the finite language
\* PatternLang gives it: the strings of the model's vocabulary it matches.
PII_PATTERNS ==
  <<
    [type |-> "ssn", severity |-> "high", pattern |-> "pii:ssn",
     name |-> <<"S", "o", "c", "i", "a", "l", " ", "S", "e", "c", "u", "r", "i", "t", "y", " ", "N", "u", "m", "b", "e", "r">>],
    [type |-> "email", severity |-> "medium", pattern |-> "pii:email",
     name |-> <<"E", "m", "a", "i", "l", " ", "A", "d", "d", "r", "e", "s", "s">>],
    [type |-> "phone_us", severity |-> "medium", pattern |-> "pii:phone_us",
     name |-> <<"P", "h", "o", "n", "e", " ", "N", "u", "m", "b", "e", "r", " ", "(", "U", "S", ")">>],
    [type |-> "credit_card", severity |-> "high", pattern |-> "pii:credit_card",
     name |-> <<"C", "r", "e", "d", "i", "t", " ", "C", "a", "r", "d", " ", "N", "u", "m", "b", "e", "r">>],
    [type |-> "ip_address", severity |-> "low", pattern |-> "pii:ip_address",
     name |-> <<"I", "P", " ", "A", "d", "d", "r", "e", "s", "s">>],
    [type |-> "aws_key", severity |-> "critical", pattern |-> "pii:aws_key",
     name |-> <<"A", "W", "S", " ", "A", "c", "c", "e", "s", "s", " ", "K", "e", "y">>],
    [type |-> "api_key_generic", severity |-> "high", pattern |-> "pii:api_key_generic",
     name |-> <<"A", "P", "I", " ", "K", "e", "y">>],
    [type |-> "github_token", severity |-> "critical", pattern |-> "pii:github_token",
     name |-> <<"G", "i", "t", "H", "u", "b", " ", "T", "o", "k", "e", "n">>],
    [type |-> "slack_token", severity |-> "high", pattern |-> "pii:slack_token",
     name |-> <<"S", "l", "a", "c", "k", " ", "T", "o", "k", "e", "n">>],
    [type |-> "private_key", severity |-> "critical", pattern |-> "pii:private_key",
     name |-> <<"P", "r", "i", "v", "a", "t", "e", " ", "K", "e", "y">>]
  >>

EXTENDED_PATTERNS ==
  <<
    [type |-> "passport", severity |-> "high", pattern |-> "pii:passport",
     name |-> <<"P", "a", "s", "s", "p", "o", "r", "t", " ", "N", "u", "m", "b", "e", "r">>],
    [type |-> "drivers_license", severity |-> "medium", pattern |-> "pii:drivers_license",
     name |-> <<"D", "r", "i", "v", "e", "r", " ", "L", "i", "c", "e", "n", "s", "e">>],
    [type |-> "iban", severity |-> "high", pattern |-> "pii:iban",
     name |-> <<"I", "B", "A", "N">>],
    [type |-> "bitcoin_address", severity |-> "medium", pattern |-> "pii:bitcoin_address",
     name |-> <<"B", "i", "t", "c", "o", "i", "n", " ", "A", "d", "d", "r", "e", "s", "s">>],
    [type |-> "ethereum_address", severity |-> "medium", pattern |-> "pii:ethereum_address",
     name |-> <<"E", "t", "h", "e", "r", "e", "u", "m", " ", "A", "d", "d", "r", "e", "s", "s">>]
  >>

POLICY_RULES ==
  <<
    <<"medical_advice",
     [category |-> "medical",
      keywords |-> <<
        <<"m", "e", "d", "i", "c", "a", "l", " ", "a", "d", "v", "i", "c", "e">>,
        <<"d", "i", "a", "g", "n", "o", "s", "i", "s">>,
        <<"d", "i", "a", "g", "n", "o", "s", "e">>,
        <<"p", "r", "e", "s", "c", "r", "i", "b", "e">>,
        <<"p", "r", "e", "s", "c", "r", "i", "p", "t", "i", "o", "n">>,
        <<"t", "r", "e", "a", "t", "m", "e", "n", "t", " ", "p", "l", "a", "n">>,
        <<"m", "e", "d", "i", "c", "a", "t", "i", "o", "n">>,
        <<"d", "o", "s", "a", "g", "e">>,
        <<"s", "y", "m", "p", "t", "o", "m", "s", " ", "i", "n", "d", "i", "c", "a", "t", "e">>,
        <<"m", "e", "d", "i", "c", "a", "l", " ", "o", "p", "i", "n", "i", "o", "n">>,
        <<"h", "e", "a", "l", "t", "h", " ", "a", "d", "v", "i", "c", "e">>>>,
      regex_patterns |-> <<"medical_advice#1", "medical_advice#2", "medical_advice#3">>,
      action |-> "block",
      message |-> "Medical advice detected. Please consult a licensed healthcare professional.",
      severity |-> "high"]>>,
    <<"legal_advice",
     [category |-> "legal",
      keywords |-> <<
        <<"l", "e", "g", "a", "l", " ", "a", "d", "v", "i", "c", "e">>,
        <<"l", "e", "g", "a", "l", " ", "c", "o", "u", "n", "s", "e", "l">>,
        <<"l", "a", "w", "s", "u", "i", "t">>,
        <<"s", "u", "e">>,
        <<"l", "e", "g", "a", "l", " ", "a", "c", "t", "i", "o", "n">>,
        <<"l", "e", "g", "a", "l", " ", "r", "i", "g", "h", "t", "s">>,
        <<"a", "t", "t", "o", "r", "n", "e", "y">>,
        <<"l", "a", "w", "y", "e", "r">>,
        <<"l", "e", "g", "a", "l", " ", "o", "p", "i", "n", "i", "o", "n">>,
        <<"c", "o", "n", "t", "r", "a", "c", "t", " ", "r", "e", "v", "i", "e", "w">>>>,
      regex_patterns |-> <<"legal_advice#1", "legal_advice#2", "legal_advice#3">>,
      action |-> "block",
      message |-> "Legal advice detected. Please consult a qualified attorney.",
      severity |-> "high"]>>,
    <<"financial_advice",
     [category |-> "financial",
      keywords |-> <<
        <<"i", "n", "v", "e", "s", "t", "m", "e", "n", "t", " ", "a", "d", "v", "i", "c", "e">>,
        <<"s", "t", "o", "c", "k", " ", "t", "i", "p", "s">>,
        <<"f", "i", "n", "a", "n", "c", "i", "a", "l", " ", "p", "l", "a", "n", "n", "i", "n", "g">>,
        <<"b", "u", "y", " ", "t", "h", "i", "s", " ", "s", "t", "o", "c", "k">>,
        <<"i", "n", "v", "e", "s", "t", " ", "i", "n">>,
        <<"t", "r", "a", "d", "i", "n", "g", " ", "s", "t", "r", "a", "t", "e", "g", "y">>,
        <<"p", "o", "r", "t", "f", "o", "l", "i", "o", " ", "a", "d", "v", "i", "c", "e">>,
        <<"r", "e", "t", "i", "r", "e", "m", "e", "n", "t", " ", "p", "l", "a", "n", "n", "i", "n", "g">>,
        <<"t", "a", "x", " ", "a", "d", "v", "i", "c", "e">>>>,
      regex_patterns |-> <<"financial_advice#1", "financial_advice#2">>,
      action |-> "warn",
      message |-> "Financial advice detected. Please consult a licensed financial advisor.",
      severity |-> "medium"]>>,
    <<"harmful_content",
     [category |-> "safety",
      keywords |-> <<
        <<"s", "e", "l", "f", " ", "h", "a", "r", "m">>,
        <<"s", "u", "i", "c", "i", "d", "e">>,
        <<"h", "u", "r", "t", " ", "m", "y", "s", "e", "l", "f">>,
        <<"e", "n", "d", " ", "m", "y", " ", "l", "i", "f", "e">>,
        <<"h", "a", "r", "m", "f", "u", "l">>,
        <<"d", "a", "n", "g", "e", "r", "o", "u", "s", " ", "a", "c", "t", "i", "v", "i", "t", "y">>>>,
      regex_patterns |-> <<"harmful_content#1", "harmful_content#2">>,
      action |-> "block",
      message |-> "Content policy violation. This type of content is not allowed.",
      severity |-> "critical"]>>,
    <<"internal_data",
     [category |-> "confidential",
      keywords |-> <<
        <<"c", "o", "n", "f", "i", "d", "e", "n", "t", "i", "a", "l">>,
        <<"i", "n", "t", "e", "r", "n", "a", "l", " ", "o", "n", "l", "y">>,
        <<"d", "o", " ", "n", "o", "t", " ", "s", "h", "a", "r", "e">>,
        <<"p", "r", "o", "p", "r", "i", "e", "t", "a", "r", "y">>,
        <<"t", "r", "a", "d", "e", " ", "s", "e", "c", "r", "e", "t">>,
        <<"c", "o", "m", "p", "a", "n", "y", " ", "c", "o", "n", "f", "i", "d", "e", "n", "t", "i", "a", "l">>,
        <<"r", "e", "s", "t", "r", "i", "c", "t", "e", "d">>>>,
      regex_patterns |-> <<"internal_data#1", "internal_data#2">>,
      action |-> "warn",
      message |-> "Potentially confidential information detected.",
      severity |-> "medium"]>>
  >>

EXTENDED_POLICIES ==
  <<
    <<"competitive_intel",
     [category |-> "business",
      keywords |-> <<
        <<"c", "o", "m", "p", "e", "t", "i", "t", "o", "r", " ", "a", "n", "a", "l", "y", "s", "i", "s">>,
        <<"c", "o", "m", "p", "e", "t", "i", "t", "o", "r", " ", "p", "r", "i", "c", "i", "n", "g">>,
        <<"s", "t", "e", "a", "l", " ", "c", "u", "s", "t", "o", "m", "e", "r", "s">>,
        <<"p", "o", "a", "c", "h", " ", "e", "m", "p", "l", "o", "y", "e", "e", "s">>,
        <<"c", "o", "m", "p", "e", "t", "i", "t", "o", "r", " ", "s", "e", "c", "r", "e", "t", "s">>>>,
      action |-> "warn",
      message |-> "Competitive intelligence query detected.",
      severity |-> "low"]>>,
    <<"personal_info_request",
     [category |-> "privacy",
      keywords |-> <<
        <<"h", "o", "m", "e", " ", "a", "d", "d", "r", "e", "s", "s">>,
        <<"p", "e", "r", "s", "o", "n", "a", "l", " ", "p", "h", "o", "n", "e">>,
        <<"f", "a", "m", "i", "l", "y", " ", "m", "e", "m", "b", "e", "r", "s">>,
        <<"s", "o", "c", "i", "a", "l", " ", "s", "e", "c", "u", "r", "i", "t", "y">>,
        <<"d", "a", "t", "e", " ", "o", "f", " ", "b", "i", "r", "t", "h">>,
        <<"m", "o", "t", "h", "e", "r", "s", " ", "m", "a", "i", "d", "e", "n", " ", "n", "a", "m", "e">>>>,
      action |-> "warn",
      message |-> "Request for personal information detected.",
      severity |-> "medium"]>>,
    <<"code_injection",
     [category |-> "security",
      regex_patterns |-> <<"code_injection#1", "code_injection#2", "code_injection#3">>,
      action |-> "block",
      message |-> "Potential code injection detected.",
      severity |-> "high"]>>
  >>

PatternLang(p) ==
  CASE
    p = "pii:ssn" -> {<<"1", "2", "3", "-", "4", "5", "-", "6", "7", "8", "9">>}
    [] p = "pii:email" -> {<<"a", "@", "b", ".", "c", "o">>}
    [] p = "pii:phone_us" -> {<<"5", "5", "5", "-", "1", "2", "3", "-", "4", "5", "6", "7">>}
    [] p = "pii:credit_card" -> {<<"4", "5", "3", "2", "-", "1", "4", "8", "8", "-", "0", "3", "4", "3", "-", "6", "4", "6", "7">>, <<"1", "2", "3", "4", "-", "5", "6", "7", "8", "-", "9", "0", "1", "2", "-", "3", "4", "5", "6">>,
                                 <<"5", "4", "2", "5", "-", "2", "3", "3", "4", "-", "3", "0", "1", "0", "-", "9", "9", "0", "3">>,
                                 <<"0", "0", "0", "0", "-", "0", "0", "0", "0", "-", "0", "0", "0", "0", "-", "0", "0", "0", "0">>}
    [] p = "pii:ip_address" -> {<<"1", "0", ".", "0", ".", "0", ".", "1">>}
    [] p = "pii:aws_key" -> {<<"A", "K", "I", "A", "A", "B", "C", "D", "E", "F", "G", "H", "I", "J", "K", "L", "M", "N", "O", "P">>}
    [] p = "pii:api_key_generic" -> {<<"a", "p", "i", "_", "k", "e", "y", "=", "a", "b", "c", "d", "e", "f", "g", "h", "i", "j", "0", "1", "2", "3", "4", "5", "6", "7", "8", "9">>}
    [] p = "pii:github_token" -> {<<"g", "h", "p", "_", "a", "a", "a", "a", "a", "a", "a", "a", "a", "a", "a", "a", "a", "a", "a", "a", "a", "a", "a", "a", "a", "a", "a", "a", "a", "a", "a", "a", "a", "a", "a", "a", "a", "a", "a", "a">>}
    [] p = "pii:slack_token" -> {<<"x", "o", "x", "b", "-", "a", "b", "c">>}
    [] p = "pii:private_key" -> {<<"-", "-", "-", "-", "-", "B", "E", "G", "I", "N", " ", "P", "R", "I", "V", "A", "T", "E", " ", "K", "E", "Y", "-", "-", "-", "-", "-">>}
    [] p = "pii:passport" -> {<<"A", "1", "2", "3", "4", "5", "6", "7">>}
    [] p = "pii:drivers_license" -> {<<"A", "1", "2", "3", "4", "5", "6", "7">>, <<"B", "1", "2", "3", "4", "5">>}
    [] p = "pii:iban" -> {<<"G", "B", "8", "2", "W", "E", "S", "T", "1", "2", "3", "4", "5", "6", "7">>}
    [] p = "pii:bitcoin_address" -> {<<"1", "A", "A", "A", "A", "A", "A", "A", "A", "A", "A", "A", "A", "A", "A", "A", "A", "A", "A", "A", "A", "A", "A", "A", "A", "A">>}
    [] p = "pii:ethereum_address" -> {<<"0", "x", "a", "a", "a", "a", "a", "a", "a", "a", "a", "a", "a", "a", "a", "a", "a", "a", "a", "a", "a", "a", "a", "a", "a", "a", "a", "a", "a", "a", "a", "a", "a", "a", "a", "a", "a", "a", "a", "a", "a", "a">>}
    [] p = "medical_advice#1" -> {<<"w", "h", "a", "t", " ", "d", "r", "u", "g">>}
    [] p = "medical_advice#2" -> {<<"s", "h", "o", "u", "l", "d", " ", "i", " ", "t", "a", "k", "e">>}
    [] p = "medical_advice#3" -> {<<"d", "i", "a", "g", "n", "o", "s", "e", " ", "m", "y", " ", "s", "y", "m", "p", "t", "o", "m", "s">>}
    [] p = "legal_advice#1" -> {<<"c", "a", "n", " ", "i", " ", "s", "u", "e">>}
    [] p = "legal_advice#2" -> {<<"i", "s", " ", "t", "h", "i", "s", " ", "l", "e", "g", "a", "l">>}
    [] p = "legal_advice#3" -> {<<"w", "h", "a", "t", " ", "a", "r", "e", " ", "m", "y", " ", "l", "e", "g", "a", "l", " ", "r", "i", "g", "h", "t", "s">>}
    [] p = "financial_advice#1" -> {<<"s", "h", "o", "u", "l", "d", " ", "i", " ", "b", "u", "y", " ", "s", "t", "o", "c", "k">>}
    [] p = "financial_advice#2" -> {<<"b", "e", "s", "t", " ", "i", "n", "v", "e", "s", "t", "m", "e", "n", "t", " ", "s", "t", "r", "a", "t", "e", "g", "y">>}
    [] p = "harmful_content#1" -> {<<"h", "o", "w", " ", "t", "o", " ", "m", "a", "k", "e", " ", "b", "o", "m", "b">>}
    [] p = "harmful_content#2" -> {<<"h", "o", "w", " ", "t", "o", " ", "h", "a", "r", "m">>}
    [] p = "internal_data#1" -> {<<"i", "n", "t", "e", "r", "n", "a", "l", " ", "d", "a", "t", "a">>}
    [] p = "internal_data#2" -> {<<"d", "o", " ", "n", "o", "t", " ", "d", "i", "s", "c", "l", "o", "s", "e">>}
    [] p = "code_injection#1" -> {<<"<", "s", "c", "r", "i", "p", "t", ">", "x", "<", "/", "s", "c", "r", "i", "p", "t", ">">>}
    [] p = "code_injection#2" -> {<<"S", "E", "L", "E", "C", "T", " ", "a", " ", "F", "R", "O", "M">>}
    [] p = "code_injection#3" -> {<<"$", "{", "x", "}">>}
    [] OTHER -> {}

CaptureGroup(p, w) ==
  CASE
    p = "pii:api_key_generic" /\ w = <<"a", "p", "i", "_", "k", "e", "y", "=", "a", "b", "c", "d", "e", "f", "g", "h", "i", "j", "0", "1", "2", "3", "4", "5", "6", "7", "8", "9">> ->
         <<"a", "b", "c", "d", "e", "f", "g", "h", "i", "j", "0", "1", "2", "3", "4", "5", "6", "7", "8", "9">>
    [] p = "pii:iban" /\ w = <<"G", "B", "8", "2", "W", "E", "S", "T", "1", "2", "3", "4", "5", "6", "7">> ->
         <<>>
    [] OTHER -> w

LeadingBoundary ==
  {"pii:ssn", "pii:email", "pii:phone_us", "pii:credit_card", "pii:ip_address", "pii:aws_key", "pii:api_key_generic", "pii:github_token", "pii:slack_token", "pii:passport", "pii:drivers_license", "pii:iban", "pii:bitcoin_address", "pii:ethereum_address", "medical_advice#1", "medical_advice#2", "medical_advice#3", "legal_advice#1", "legal_advice#2", "legal_advice#3", "financial_advice#1", "financial_advice#2", "harmful_content#1", "harmful_content#2", "internal_data#1", "internal_data#2"}

TrailingBoundary ==
  {"pii:ssn", "pii:email", "pii:phone_us", "pii:credit_card", "pii:ip_address", "pii:aws_key", "pii:api_key_generic", "pii:github_token", "pii:slack_token", "pii:passport", "pii:drivers_license", "pii:iban", "pii:bitcoin_address", "pii:ethereum_address", "medical_advice#1", "medical_advice#2", "medical_advice#3", "legal_advice#1", "legal_advice#2", "legal_advice#3", "financial_advice#1", "financial_advice#2", "harmful_content#1", "harmful_content#2", "internal_data#1", "internal_data#2"}

\* ------------------------------------------------------------- text
\* the upper-case letters with their lower-case forms
LowerOf ==
    [c \in {"A", "B", "C", "D", "E", "F", "G", "H", "I", "J", "K", "L", "M",
            "N", "O", "P", "Q", "R", "S", "T", "U", "V", "W", "X", "Y", "Z"} |->
       CASE c = "A" -> "a" [] c = "B" -> "b" [] c = "C" -> "c" [] c = "D" -> "d"
         [] c = "E" -> "e" [] c = "F" -> "f" [] c = "G" -> "g" [] c = "H" -> "h"
         [] c = "I" -> "i" [] c = "J" -> "j" [] c = "K" -> "k" [] c = "L" -> "l"
         [] c = "M" -> "m" [] c = "N" -> "n" [] c = "O" -> "o" [] c = "P" -> "p"
         [] c = "Q" -> "q" [] c = "R" -> "r" [] c = "S" -> "s" [] c = "T" -> "t"
         [] c = "U" -> "u" [] c = "V" -> "v" [] c = "W" -> "w" [] c = "X" -> "x"
         [] c = "Y" -> "y" [] c = "Z" -> "z"]

Lower(c) == IF c \in DOMAIN LowerOf THEN LowerOf[c] ELSE c

Upper(c) ==
    IF \E u \in DOMAIN LowerOf : LowerOf[u] = c
    THEN CHOOSE u \in DOMAIN LowerOf : LowerOf[u] = c
    ELSE c

\* str.lower() and str.upper()
LowerText(text) == [i \in 1..Len(text) |-> Lower(text[i])]
UpperText(text) == [i \in 1..Len(text) |-> Upper(text[i])]

Digits == {"0", "1", "2", "3", "4", "5", "6", "7", "8", "9"}
LowerLetters ==
    {"a", "b", "c", "d", "e", "f", "g", "h", "i", "j", "k", "l", "m",
     "n", "o", "p", "q", "r", "s", "t", "u", "v", "w", "x", "y", "z"}

\* a character of the class \w
IsWordChar(c) == Lower(c) \in LowerLetters \cup Digits \cup {"_"}

\* the regex assertion \b between text[i-1] and text[i]
WordAt(text, i) == i \in 1..Len(text) /\ IsWordChar(text[i])
Boundary(text, i) == WordAt(text, i - 1) # WordAt(text, i)

\* word occurs in text at index i, compared as re.IGNORECASE compares
OccursAt(word, text, i) ==
    /\ i >= 1
    /\ i + Len(word) - 1 <= Len(text)
    /\ \A j \in 1..Len(word) : Lower(text[i + j - 1]) = Lower(word[j])

\* keyword.lower() in text_lower
IsSubstring(word, text) == \E i \in 1..(Len(text) + 1) : OccursAt(word, text, i)

\* The words of a pattern's language that the pattern matches at index i.
MatchesAt(p, text, i) ==
    {w \in PatternLang(p) :
        /\ OccursAt(w, text, i)
        /\ p \in LeadingBoundary => Boundary(text, i)
        /\ p \in TrailingBoundary => Boundary(text, i + Len(w))}

\* re.search(pattern, text, re.IGNORECASE) is not None
ReSearch(p, text) == \E i \in 1..Len(text) : MatchesAt(p, text, i) # {}

Longest(words) == CHOOSE w \in words : \A v \in words : Len(v) <= Len(w)

\* re.finditer(pattern, text, re.IGNORECASE): the leftmost match at or after
\* index i, then the matches after its end; start and end are the 0-based
\* offsets match.start() and match.end().
RECURSIVE Finditer(_, _, _)
Finditer(p, text, i) ==
    IF i > Len(text) THEN <<>>
    ELSE IF MatchesAt(p, text, i) = {} THEN Finditer(p, text, i + 1)
    ELSE LET w == Longest(MatchesAt(p, text, i))
         IN <<[start |-> i - 1,
               end |-> i - 1 + Len(w),
               group |-> SubSeq(text, i, i - 1 + Len(w)),
               value |-> CaptureGroup(p, w)]>>
            \o Finditer(p, text, i + Len(w))

\* ------------------------------------------------------------- patterns.py
DigitValue(c) ==
    CASE c = "0" -> 0 [] c = "1" -> 1 [] c = "2" -> 2 [] c = "3" -> 3
      [] c = "4" -> 4 [] c = "5" -> 5 [] c = "6" -> 6 [] c = "7" -> 7
      [] c = "8" -> 8 [] c = "9" -> 9

\* the Luhn term with the doubling on the even indexes, the check digit included
LuhnTermFromCheckDigit(digit, i) ==
    LET n == DigitValue(digit)
    IN IF i % 2 = 0
       THEN (IF 2 * n > 9 THEN 2 * n - 9 ELSE 2 * n)
       ELSE n

\* One term of the Luhn sum: the digit at index i of the reversed number
\* (0-based), doubled when i is odd, minus 9 when the double exceeds 9.
LuhnTerm(digit, i) ==
    LET n == DigitValue(digit)
    IN IF i % 2 = 1
       THEN (IF 2 * n > 9 THEN 2 * n - 9 ELSE 2 * n)
       ELSE n

RECURSIVE LuhnTotal(_, _)
LuhnTotal(reverse_digits, i) ==
    IF i >= Len(reverse_digits) THEN 0
    ELSE LuhnTerm(reverse_digits[i + 1], i) + LuhnTotal(reverse_digits, i + 1)

\* the characters re.sub(r'[-\s]', '', number) removes: '-', space and tab
Separators == {"-", " ", "\t"}

\* Characters str.isdigit() accepts and int() refuses: "sup2" is the
\* superscript two (U+00B2).
IsdigitOnly == {"sup2"}

\* number with its separators removed
Stripped(number) == SelectSeq(number, LAMBDA c : c \notin Separators)

\* validate_credit_card raises ValueError: the stripped number passes
\* str.isdigit() and int(digit) raises on one of its characters.
validate_credit_card_raises(number) ==
    LET stripped == Stripped(number)
    IN /\ stripped # <<>>
       /\ \A i \in 1..Len(stripped) : stripped[i] \in Digits \cup IsdigitOnly
       /\ \E i \in 1..Len(stripped) : stripped[i] \in IsdigitOnly

\* validate_credit_card with a total of 0 refused
validate_credit_card_nonzero(number) ==
    LET stripped == Stripped(number)
    IN /\ stripped # <<>>
       /\ \A i \in 1..Len(stripped) : stripped[i] \in Digits \cup IsdigitOnly
       /\ LuhnTotal(Reverse(stripped), 0) % 10 = 0
       /\ LuhnTotal(Reverse(stripped), 0) > 0

\* The value validate_credit_card returns, when it returns.
validate_credit_card(number) ==
    LET stripped == Stripped(number)
    IN /\ stripped # <<>>
       /\ \A i \in 1..Len(stripped) : stripped[i] \in Digits \cup IsdigitOnly
       /\ LuhnTotal(Reverse(stripped), 0) % 10 = 0

\* the matches of one pattern with no match left out
PatternMatchesUnvalidated(config, text) ==
    LET kept == Finditer(config.pattern, text, 1)
    IN [k \in 1..Len(kept) |->
          [type |-> config.type,
           name |-> config.name,
           value |-> kept[k].value,
           start |-> kept[k].start,
           end |-> kept[k].end,
           severity |-> config.severity]]

\* The matches of one pattern, as detect_pii appends them.
PatternMatches(config, text) ==
    LET found == Finditer(config.pattern, text, 1)
        kept == SelectSeq(found, LAMBDA m :
                    config.type = "credit_card" => validate_credit_card(m.group))
    IN [k \in 1..Len(kept) |->
          [type |-> config.type,
           name |-> config.name,
           value |-> kept[k].value,
           start |-> kept[k].start,
           end |-> kept[k].end,
           severity |-> config.severity]]

RECURSIVE AllMatches(_, _, _)
AllMatches(patterns, text, k) ==
    IF k > Len(patterns) THEN <<>>
    ELSE PatternMatches(patterns[k], text) \o AllMatches(patterns, text, k + 1)

\* list.sort(key=start) and sorted(key=start, reverse=True): stable sorts.
RECURSIVE InsertSorted(_, _, _)
InsertSorted(sorted, m, descending) ==
    IF sorted = <<>> THEN <<m>>
    ELSE LET last == sorted[Len(sorted)]
             after == IF descending THEN last.start >= m.start
                                    ELSE last.start <= m.start
         IN IF after THEN Append(sorted, m)
            ELSE Append(InsertSorted(SubSeq(sorted, 1, Len(sorted) - 1), m, descending),
                        last)

RECURSIVE SortByStart(_, _)
SortByStart(matches, descending) ==
    IF matches = <<>> THEN <<>>
    ELSE InsertSorted(SortByStart(SubSeq(matches, 1, Len(matches) - 1), descending),
                      matches[Len(matches)], descending)

\* detect_pii without its final sort
detect_pii_unsorted(text, extended) ==
    LET patterns == IF extended THEN PII_PATTERNS \o EXTENDED_PATTERNS
                                ELSE PII_PATTERNS
    IN AllMatches(patterns, text, 1)

detect_pii(text, extended) ==
    LET patterns == IF extended THEN PII_PATTERNS \o EXTENDED_PATTERNS
                                ELSE PII_PATTERNS
    IN SortByStart(AllMatches(patterns, text, 1), FALSE)

Repeat(c, n) == [i \in 1..(IF n > 0 THEN n ELSE 0) |-> c]

RedactedLiteral == <<"[", "R", "E", "D", "A", "C", "T", "E", "D", "]">>
RedactedType == <<"[", "R", "E", "D", "A", "C", "T", "E", "D", "-", "T", "Y", "P", "E", "]">>
RedactedXXX == <<"[", "R", "E", "D", "A", "C", "T", "E", "D", "-", "X", "X", "X", "]">>

Replacement(match, redaction_style) ==
    IF redaction_style = RedactedType
    THEN <<"[", "R", "E", "D", "A", "C", "T", "E", "D", "-">>
         \o UpperText(match.name) \o <<"]">>
    ELSE IF redaction_style = RedactedXXX
    THEN <<"[">> \o Repeat("X", match.end - match.start - 2) \o <<"]">>
    ELSE redaction_style

\* Python's slices s[:k] and s[k:] for k >= 0
SliceTo(s, k) == SubSeq(s, 1, IF k < Len(s) THEN k ELSE Len(s))
SliceFrom(s, k) == SubSeq(s, k + 1, Len(s))

RECURSIVE RedactLoop(_, _, _, _)
RedactLoop(redacted, sorted_matches, k, redaction_style) ==
    IF k > Len(sorted_matches) THEN redacted
    ELSE LET match == sorted_matches[k]
         IN RedactLoop(SliceTo(redacted, match.start)
                         \o Replacement(match, redaction_style)
                         \o SliceFrom(redacted, match.end),
                       sorted_matches, k + 1, redaction_style)

\* redact_pii replacing in the order the matches were passed in
redact_pii_in_order_passed(text, matches, redaction_style) ==
    IF matches = <<>> THEN text
    ELSE RedactLoop(text, matches, 1, redaction_style)

\* redact_pii with an empty list of matches answered by the placeholder
redact_pii_placeholder_for_none(text, matches, redaction_style) ==
    IF matches = <<>> THEN redaction_style
    ELSE RedactLoop(text, SortByStart(matches, TRUE), 1, redaction_style)

redact_pii(text, matches, redaction_style) ==
    IF matches = <<>> THEN text
    ELSE RedactLoop(text, SortByStart(matches, TRUE), 1, redaction_style)

\* ------------------------------------------------------------- policies.py
\* dict.update on insertion-ordered dictionaries, kept as sequences of
\* <<key, value>>: an existing key keeps its place and takes the new value, a
\* new key goes to the end.
DictKeys(d) == {d[i][1] : i \in 1..Len(d)}

\* dict.update with the value of an existing key merged into, not put in place of, the old one
DictPutMerged(d, key, value) ==
    IF key \in DictKeys(d)
    THEN [i \in 1..Len(d) |->
            IF d[i][1] = key
            THEN <<key, [f \in DOMAIN d[i][2] \cup DOMAIN value |->
                           IF f \in DOMAIN value THEN value[f] ELSE d[i][2][f]]>>
            ELSE d[i]]
    ELSE Append(d, <<key, value>>)

DictPut(d, key, value) ==
    IF key \in DictKeys(d)
    THEN [i \in 1..Len(d) |-> IF d[i][1] = key THEN <<key, value>> ELSE d[i]]
    ELSE Append(d, <<key, value>>)

RECURSIVE DictUpdate(_, _, _)
DictUpdate(d, other, k) ==
    IF k > Len(other) THEN d
    ELSE DictUpdate(DictPut(d, other[k][1], other[k][2]), other, k + 1)

\* The first keyword of the rule that text_lower contains, as <<keyword>>, or <<>>.
RECURSIVE FirstKeyword(_, _, _)
FirstKeyword(keywords, text_lower, k) ==
    IF k > Len(keywords) THEN <<>>
    ELSE IF IsSubstring(LowerText(keywords[k]), text_lower) THEN <<keywords[k]>>
    ELSE FirstKeyword(keywords, text_lower, k + 1)

RECURSIVE FirstPattern(_, _, _)
FirstPattern(regex_patterns, text, k) ==
    IF k > Len(regex_patterns) THEN <<>>
    ELSE IF ReSearch(regex_patterns[k], text) THEN <<regex_patterns[k]>>
    ELSE FirstPattern(regex_patterns, text, k + 1)

\* the loop's body with the patterns tried before the keywords
RuleViolationPatternFirst(policy_name, config, text) ==
    LET by_pattern == FirstPattern(Get(config, "regex_patterns", <<>>), text, 1)
        by_keyword == IF by_pattern = <<>>
                      THEN FirstKeyword(Get(config, "keywords", <<>>), LowerText(text), 1)
                      ELSE <<>>
        matched_keyword == IF by_keyword # <<>> THEN by_keyword[1]
                           ELSE <<"pattern: ", by_pattern[1]>>
    IN IF by_keyword = <<>> /\ by_pattern = <<>> THEN <<>>
       ELSE <<[policy_name |-> policy_name,
               category |-> Get(config, "category", "general"),
               matched_keyword |-> matched_keyword,
               action |-> Get(config, "action", "warn"),
               message |-> Get(config, "message", "Policy violation detected"),
               severity |-> Get(config, "severity", "medium")]>>

\* The body of check_policies' loop for one rule: its violation as a
\* one-element sequence, or <<>>.
RuleViolation(policy_name, config, text) ==
    LET by_keyword == FirstKeyword(Get(config, "keywords", <<>>), LowerText(text), 1)
        by_pattern == IF by_keyword = <<>>
                      THEN FirstPattern(Get(config, "regex_patterns", <<>>), text, 1)
                      ELSE <<>>
        matched_keyword == IF by_keyword # <<>> THEN by_keyword[1]
                           ELSE <<"pattern: ", by_pattern[1]>>
    IN IF by_keyword = <<>> /\ by_pattern = <<>> THEN <<>>
       ELSE <<[policy_name |-> policy_name,
               category |-> Get(config, "category", "general"),
               matched_keyword |-> matched_keyword,
               action |-> Get(config, "action", "warn"),
               message |-> Get(config, "message", "Policy violation detected"),
               severity |-> Get(config, "severity", "medium")]>>

RECURSIVE Violations(_, _, _)
Violations(policies, text, k) ==
    IF k > Len(policies) THEN <<>>
    ELSE RuleViolation(policies[k][1], policies[k][2], text)
         \o Violations(policies, text, k + 1)

check_policies(text, extended, custom_policies) ==
    LET base == IF extended THEN DictUpdate(POLICY_RULES, EXTENDED_POLICIES, 1)
                            ELSE POLICY_RULES
        policies == DictUpdate(base, custom_policies, 1)
    IN Violations(policies, text, 1)

should_block(violations) ==
    \E i \in 1..Len(violations) : violations[i].action = "block"

\* ------------------------------------------------------------- ledger
\* calculate_hash with action_taken left out of the hash input
calculate_hash_without_action(data, prev_hash) ==
    Sha256(JsonDumps([timestamp |-> Get(data, "timestamp", NoTime),
                      event_type |-> Get(data, "event_type", None),
                      original_text |-> Get(data, "original_text", NoText),
                      prev_hash |-> prev_hash]))

\* calculate_hash with the entry's user_id hashed as well
calculate_hash_with_user_id(data, prev_hash) ==
    Sha256(JsonDumps([timestamp |-> Get(data, "timestamp", NoTime),
                      event_type |-> Get(data, "event_type", None),
                      original_text |-> Get(data, "original_text", NoText),
                      action_taken |-> Get(data, "action_taken", None),
                      user_id |-> Get(data, "user_id", None),
                      prev_hash |-> prev_hash]))

\* GovernanceDatabase.calculate_hash: the five named fields of the entry, read
\* with dict.get (None when the key is absent), serialised with sorted keys.
calculate_hash(data, prev_hash) ==
    Sha256(JsonDumps([timestamp |-> Get(data, "timestamp", NoTime),
                      event_type |-> Get(data, "event_type", None),
                      original_text |-> Get(data, "original_text", NoText),
                      action_taken |-> Get(data, "action_taken", None),
                      prev_hash |-> prev_hash]))

\* SELECT hash FROM audit_log ORDER BY id DESC LIMIT 1, or "genesis".
TailHash(rows) == IF rows = <<>> THEN Genesis ELSE rows[Len(rows)].hash

\* The row add_audit_entry inserts for an entry, given the rows its connection
\* sees, the AUTOINCREMENT counter and the clock.
InsertedRow(entry, rows, last_id, clock) ==
    LET prev_hash == TailHash(rows)
        entry_hash == calculate_hash(entry, prev_hash)
    IN [id |-> last_id + 1,
        timestamp |-> Get(entry, "timestamp", clock),
        event_type |-> Get(entry, "event_type", "scan"),
        original_text |-> Get(entry, "original_text", NoText),
        redacted_text |-> Get(entry, "redacted_text", NoText),
        pii_detected |-> JsonDumps(Get(entry, "pii_detected", <<>>)),
        policy_violations |-> JsonDumps(Get(entry, "policy_violations", <<>>)),
        action_taken |-> Get(entry, "action_taken", "allowed"),
        user_id |-> Get(entry, "user_id", None),
        session_id |-> Get(entry, "session_id", None),
        metadata |-> JsonDumps(Get(entry, "metadata", EmptyDict)),
        hash |-> entry_hash,
        prev_hash |-> prev_hash]

\* datetime.now().date() of a clock value: two clock ticks to the day.
DateOf(clock) == (clock + 1) \div 2

\* The statistics row of a day after _update_statistics(entry): UPDATE of the
\* existing row, or INSERT of a new one with total_scans = 1.
UpdatedStatistics(stats, entry, today) ==
    LET pii == Len(Get(entry, "pii_detected", <<>>))
        viol == Len(Get(entry, "policy_violations", <<>>))
        blocked == IF Get(entry, "action_taken", None) = "blocked" THEN 1 ELSE 0
        row == IF today \in DOMAIN stats
               THEN [total_scans |-> stats[today].total_scans + 1,
                     pii_detections |-> stats[today].pii_detections + pii,
                     policy_violations |-> stats[today].policy_violations + viol,
                     blocked_prompts |-> stats[today].blocked_prompts + blocked]
               ELSE [total_scans |-> 1,
                     pii_detections |-> pii,
                     policy_violations |-> viol,
                     blocked_prompts |-> blocked]
    IN [d \in (DOMAIN stats) \cup {today} |-> IF d = today THEN row ELSE stats[d]]

\* the loop of verify_hash_chain chaining the hash it expected, not the hash
\* it read, into the next row
RECURSIVE InvalidEntriesFromExpected(_, _, _)
InvalidEntriesFromExpected(rows, i, prev_hash) ==
    IF i > Len(rows) THEN <<>>
    ELSE LET row == rows[i]
             entry_data == [timestamp |-> row.timestamp,
                            event_type |-> row.event_type,
                            original_text |-> row.original_text,
                            action_taken |-> row.action_taken]
             expected_hash == calculate_hash(entry_data, prev_hash)
             actual_hash == row.hash
             here == IF expected_hash # actual_hash
                     THEN <<[id |-> row.id,
                             expected_hash |-> expected_hash,
                             actual_hash |-> actual_hash]>>
                     ELSE <<>>
         IN here \o InvalidEntriesFromExpected(rows, i + 1, expected_hash)

\* The loop of verify_hash_chain over the rows read: the expected hash is
\* recomputed from the row's own columns and the stored hash of the row read
\* just before it; a mismatch is recorded and the loop goes on.
RECURSIVE InvalidEntries(_, _, _)
InvalidEntries(rows, i, prev_hash) ==
    IF i > Len(rows) THEN <<>>
    ELSE LET row == rows[i]
             entry_data == [timestamp |-> row.timestamp,
                            event_type |-> row.event_type,
                            original_text |-> row.original_text,
                            action_taken |-> row.action_taken]
             expected_hash == calculate_hash(entry_data, prev_hash)
             actual_hash == row.hash
             here == IF expected_hash # actual_hash
                     THEN <<[id |-> row.id,
                             expected_hash |-> expected_hash,
                             actual_hash |-> actual_hash]>>
                     ELSE <<>>
         IN here \o InvalidEntries(rows, i + 1, actual_hash)

\* cleanup_old_logs keeping the hash the first surviving row was chained to:
\* the rows kept, the first of them rehashed over "genesis"
RowsKeptRechained(log, cutoff_date) ==
    LET kept == SelectSeq(log, LAMBDA row : ~(row.timestamp < cutoff_date))
    IN IF kept = <<>> THEN kept
       ELSE [kept EXCEPT ![1].hash =
                calculate_hash([timestamp |-> kept[1].timestamp,
                                event_type |-> kept[1].event_type,
                                original_text |-> kept[1].original_text,
                                action_taken |-> kept[1].action_taken], Genesis)]

\* verify_hash_chain that stops at the first mismatch
verify_hash_chain_to_first_break(log, limit) ==
    LET rows == IF limit # 0 /\ limit < Len(log) THEN SubSeq(log, 1, limit) ELSE log
        every == InvalidEntries(rows, 1, Genesis)
        invalid_entries == IF every = <<>> THEN <<>> ELSE <<every[1]>>
    IN [valid |-> invalid_entries = <<>>,
        entries_checked |-> Len(rows),
        invalid_entries |-> invalid_entries]

\* verify_hash_chain(limit): SELECT * FROM audit_log ORDER BY id [LIMIT limit];
\* a limit of None or 0 reads every row.
\* verify_hash_chain reading every row whatever the limit
verify_hash_chain_unlimited(log, limit) ==
    LET rows == log
        invalid_entries == InvalidEntries(rows, 1, Genesis)
    IN [valid |-> invalid_entries = <<>>,
        entries_checked |-> Len(rows),
        invalid_entries |-> invalid_entries]

verify_hash_chain(log, limit) ==
    LET rows == IF limit # 0 /\ limit < Len(log) THEN SubSeq(log, 1, limit) ELSE log
        invalid_entries == InvalidEntries(rows, 1, Genesis)
    IN [valid |-> invalid_entries = <<>>,
        entries_checked |-> Len(rows),
        invalid_entries |-> invalid_entries]

\* The WHERE clause get_audit_logs builds from its filters.
MatchesFilters(row, filters) ==
    /\ "start_date" \in DOMAIN filters => row.timestamp >= filters["start_date"]
    /\ "end_date" \in DOMAIN filters => row.timestamp <= filters["end_date"]
    /\ "event_type" \in DOMAIN filters => row.event_type = filters["event_type"]
    /\ "action_taken" \in DOMAIN filters => row.action_taken = filters["action_taken"]

\* get_audit_logs with ORDER BY id in place of ORDER BY id DESC
get_audit_logs_ascending(log, limit, offset, filters) ==
    LET matching == SelectSeq(log, LAMBDA row: MatchesFilters(row, filters))
        last == IF offset + limit < Len(matching) THEN offset + limit ELSE Len(matching)
        rows == SubSeq(matching, offset + 1, last)
    IN [i \in 1..Len(rows) |->
          [rows[i] EXCEPT !.pii_detected = JsonLoads(@),
                          !.policy_violations = JsonLoads(@),
                          !.metadata = JsonLoads(@)]]

\* get_audit_logs: the matching rows ORDER BY id DESC LIMIT limit OFFSET offset,
\* with the three JSON columns parsed.
get_audit_logs(log, limit, offset, filters) ==
    LET matching == SelectSeq(Reverse(log), LAMBDA row: MatchesFilters(row, filters))
        last == IF offset + limit < Len(matching) THEN offset + limit ELSE Len(matching)
        rows == SubSeq(matching, offset + 1, last)
    IN [i \in 1..Len(rows) |->
          [rows[i] EXCEPT !.pii_detected = JsonLoads(@),
                          !.policy_violations = JsonLoads(@),
                          !.metadata = JsonLoads(@)]]

\* SUM(counter) over the statistics rows of the dates given; over no row SUM
\* is NULL, which get_statistics returns as 0 ("stats[i] or 0").
RECURSIVE SqlSum(_, _, _)
SqlSum(stats, dates, counter) ==
    IF dates = {} THEN 0
    ELSE LET d == CHOOSE x \in dates : TRUE
         IN stats[d][counter] + SqlSum(stats, dates \ {d}, counter)

\* ORDER BY date DESC
RECURSIVE DatesDescending(_)
DatesDescending(dates) ==
    IF dates = {} THEN <<>>
    ELSE LET latest == CHOOSE x \in dates : \A y \in dates : y <= x
         IN <<latest>> \o DatesDescending(dates \ {latest})

\* get_statistics with the window starting days, not days - 1, before today
get_statistics_from_days_before(stats, today, days) ==
    LET start_date == today - days
        dates == {d \in DOMAIN stats : d >= start_date /\ d <= today}
        ordered == DatesDescending(dates)
    IN [summary |-> [total_scans |-> SqlSum(stats, dates, "total_scans"),
                     total_pii_detections |-> SqlSum(stats, dates, "pii_detections"),
                     total_policy_violations |-> SqlSum(stats, dates, "policy_violations"),
                     total_blocked |-> SqlSum(stats, dates, "blocked_prompts"),
                     days_active |-> Cardinality(dates)],
        daily_breakdown |-> [i \in 1..Len(ordered) |->
                               [date |-> ordered[i],
                                scans |-> stats[ordered[i]].total_scans,
                                pii |-> stats[ordered[i]].pii_detections,
                                violations |-> stats[ordered[i]].policy_violations,
                                blocked |-> stats[ordered[i]].blocked_prompts]],
        period |-> days]

\* get_statistics(days) on the rows of table statistics, today being the date
\* of datetime.now(): the sums and the rows of the dates from
\* today - (days - 1) to today.
get_statistics(stats, today, days) ==
    LET start_date == today - (days - 1)
        dates == {d \in DOMAIN stats : d >= start_date /\ d <= today}
        ordered == DatesDescending(dates)
    IN [summary |-> [total_scans |-> SqlSum(stats, dates, "total_scans"),
                     total_pii_detections |-> SqlSum(stats, dates, "pii_detections"),
                     total_policy_violations |-> SqlSum(stats, dates, "policy_violations"),
                     total_blocked |-> SqlSum(stats, dates, "blocked_prompts"),
                     days_active |-> Cardinality(dates)],
        daily_breakdown |-> [i \in 1..Len(ordered) |->
                               [date |-> ordered[i],
                                scans |-> stats[ordered[i]].total_scans,
                                pii |-> stats[ordered[i]].pii_detections,
                                violations |-> stats[ordered[i]].policy_violations,
                                blocked |-> stats[ordered[i]].blocked_prompts]],
        period |-> days]

\* export_logs: the rows get_audit_logs lists, as JSON or as CSV (<<"csv",
\* lines>>: a header and a line of seven columns per row, or no line at all
\* for no row); another format raises ValueError.
export_logs(log, format, filters) ==
    LET logs == get_audit_logs(log, 10000, 0, filters)
    IN IF format = "json"
       THEN [kind |-> "exported", data |-> JsonDumps(logs)]
       ELSE IF format = "csv"
       THEN [kind |-> "exported",
             data |-> <<"csv",
                        IF logs = <<>> THEN <<>>
                        ELSE <<<<"id", "timestamp", "event_type", "action_taken",
                                 "pii_count", "violation_count", "hash">>>>
                             \o [i \in 1..Len(logs) |->
                                   <<logs[i].id,
                                     logs[i].timestamp,
                                     logs[i].event_type,
                                     logs[i].action_taken,
                                     Len(logs[i].pii_detected),
                                     Len(logs[i].policy_violations),
                                     logs[i].hash>>]>>]
       ELSE [kind |-> "raised", error |-> "ValueError"]

\* a purge that blanks the text of the rows before the cutoff and deletes none
RowsKeptWithoutText(log, cutoff_date) ==
    [i \in 1..Len(log) |->
        IF log[i].timestamp < cutoff_date
        THEN [log[i] EXCEPT !.original_text = NoText, !.redacted_text = NoText]
        ELSE log[i]]

\* cleanup_old_logs: DELETE FROM audit_log WHERE timestamp < cutoff_date
\* leaves the rows whose timestamp is not before the cutoff.
\* cleanup_old_logs deleting the rows of the cutoff's own timestamp as well
RowsKeptAfterCutoff(log, cutoff_date) ==
    SelectSeq(log, LAMBDA row : row.timestamp > cutoff_date)

RowsKept(log, cutoff_date) ==
    SelectSeq(log, LAMBDA row : ~(row.timestamp < cutoff_date))

\* ------------------------------------------------------------- server.py
T_hi == <<"h", "i">>
T_Sue == <<"S", "u", "e">>
T_invest == <<"i", "n", "v", "e", "s", "t", " ", "i", "n">>
T_email == <<"a", "@", "b", ".", "c", "o">>
T_email_sue == <<"a", "@", "b", ".", "c", "o", " ", "s", "u", "e">>
T_long == <<"a", "@", "b", ".", "c", "o", " ", "o", "r", " ", "s", "u", "e">>

\* a prompt of exactly max_prompt_length characters, and one a character longer
T_full == [i \in 1..MaxPromptLen |-> "x"]
T_over == [i \in 1..(MaxPromptLen + 1) |-> "x"]

\* Prompts submitted to scan_prompt: T_hi is clean, T_Sue blocked (keyword
\* 'sue' of legal_advice), T_invest warned (keyword 'invest in' of
\* financial_advice), T_email holds an e-mail address, T_email_sue both, and
\* T_long is longer than max_prompt_length.

\* AIGovernanceMCP._default_config (rate_limit, which no handler reads, left out)
DefaultConfig ==
    [pii_detection_enabled |-> TRUE,
     policy_enforcement_enabled |-> TRUE,
     audit_logging_enabled |-> TRUE,
     auto_redact |-> TRUE,
     extended_patterns |-> FALSE,
     extended_policies |-> FALSE,
     redaction_style |-> RedactedLiteral,
     max_prompt_length |-> MaxPromptLen]

\* the configuration dictionary the test fixture constructs the server with
FixtureConfig ==
    [pii_detection_enabled |-> TRUE,
     policy_enforcement_enabled |-> TRUE,
     audit_logging_enabled |-> TRUE,
     auto_redact |-> TRUE]

\* the number of elements of s whose field key has the value
CountBy(s, key, value) == Len(SelectSeq(s, LAMBDA x : x[key] = value))

get_pii_summary(matches) ==
    [total_count |-> Len(matches),
     by_type |-> [ty \in {matches[k].type : k \in 1..Len(matches)} |->
                    CountBy(matches, "type", ty)],
     by_severity |-> [sv \in {"critical", "high", "medium", "low"} |->
                        CountBy(matches, "severity", sv)],
     unique_types |-> {matches[k].name : k \in 1..Len(matches)}]

get_policy_summary(violations) ==
    [total_violations |-> Len(violations),
     should_block |-> should_block(violations),
     by_category |-> [c \in {violations[k].category : k \in 1..Len(violations)} |->
                        CountBy(violations, "category", c)],
     by_severity |-> [sv \in {"critical", "high", "medium", "low"} |->
                        CountBy(violations, "severity", sv)],
     by_action |-> [a \in {"allow", "warn", "block", "redact"} |->
                      CountBy(violations, "action", a)],
     messages |-> {violations[k].message : k \in 1..Len(violations)}]

\* "Determine action" with 'warned' given only to violations of action warn
DetermineActionByWarn(policy_violations) ==
    IF should_block(policy_violations) THEN "blocked"
    ELSE IF \E i \in 1..Len(policy_violations) : policy_violations[i].action = "warn"
         THEN "warned"
    ELSE "allowed"

\* _scan_prompt, "Determine action"
DetermineAction(policy_violations) ==
    IF should_block(policy_violations) THEN "blocked"
    ELSE IF policy_violations # <<>> THEN "warned"
    ELSE "allowed"

\* _scan_prompt from "Redact if enabled" to "Determine action", for the findings
\* and violations the detection gave
Decision(prompt, pii_matches, policy_violations, auto_redact, cfg) ==
    LET redacted_prompt ==
            IF auto_redact /\ pii_matches # <<>>
            THEN redact_pii(prompt, pii_matches,
                            Get(cfg, "redaction_style", RedactedLiteral))
            ELSE prompt
    IN [prompt |-> prompt,
        pii_matches |-> pii_matches,
        policy_violations |-> policy_violations,
        redacted_prompt |-> redacted_prompt,
        action |-> DetermineAction(policy_violations)]

\* _scan_prompt from "Detect PII" to "Determine action"
Scan(args, cfg) ==
    LET prompt == Get(args, "prompt", <<>>)
        auto_redact == Get(args, "auto_redact", Get(cfg, "auto_redact", TRUE))
        pii_matches == IF Get(cfg, "pii_detection_enabled", TRUE)
                       THEN detect_pii(prompt, Get(cfg, "extended_patterns", FALSE))
                       ELSE <<>>
        policy_violations ==
            IF Get(cfg, "policy_enforcement_enabled", TRUE)
            THEN check_policies(prompt, Get(cfg, "extended_policies", FALSE), <<>>)
            ELSE <<>>
    IN Decision(prompt, pii_matches, policy_violations, auto_redact, cfg)

\* _scan_prompt, "Create response"
ScanResult(scan) ==
    [original_prompt |-> scan.prompt,
     redacted_prompt |-> IF scan.action # "blocked" THEN scan.redacted_prompt
                                                   ELSE NoText,
     pii_detected |-> [k \in 1..Len(scan.pii_matches) |->
                         [type |-> scan.pii_matches[k].type,
                          name |-> scan.pii_matches[k].name,
                          severity |-> scan.pii_matches[k].severity]],
     policy_violations |-> [k \in 1..Len(scan.policy_violations) |->
                              [policy |-> scan.policy_violations[k].policy_name,
                               category |-> scan.policy_violations[k].category,
                               action |-> scan.policy_violations[k].action,
                               message |-> scan.policy_violations[k].message]],
     action |-> scan.action,
     safe_to_send |-> scan.action # "blocked",
     summaries |-> [pii |-> get_pii_summary(scan.pii_matches),
                    policy |-> get_policy_summary(scan.policy_violations)]]

SessionId == "session_1"

\* _scan_prompt, "Log if enabled": the audit entry
AuditEntry(args, scan, result, clock) ==
    LET context == Get(args, "context", EmptyDict)
    IN [timestamp |-> clock,
        event_type |-> "scan",
        original_text |-> scan.prompt,
        redacted_text |-> scan.redacted_prompt,
        pii_detected |-> result.pii_detected,
        policy_violations |-> result.policy_violations,
        action_taken |-> scan.action,
        user_id |-> Get(context, "user_id", None),
        session_id |-> SessionId,
        metadata |-> context]

\* "Check length" rejecting a prompt of exactly max_prompt_length too
TooLongFromMax(args, cfg) ==
    Len(Get(args, "prompt", <<>>)) >= Get(cfg, "max_prompt_length", MaxPromptLen)

\* _scan_prompt, "Check length"
TooLong(args, cfg) ==
    Len(Get(args, "prompt", <<>>)) > Get(cfg, "max_prompt_length", MaxPromptLen)

LengthError(cfg) ==
    [error |-> "Prompt exceeds maximum length",
     max_length |-> Get(cfg, "max_prompt_length", None)]

\* _configure: only the keys the configuration already has are updated
Configured(cfg, args) ==
    [k \in DOMAIN cfg |-> IF k \in DOMAIN args THEN args[k] ELSE cfg[k]]

\* ------------------------------------------------------------- state
VARIABLES
    audit_log,    \* committed rows of table audit_log, in id order
    last_id,      \* committed AUTOINCREMENT counter of audit_log
    statistics,   \* committed rows of table statistics: date -> counters
    lock,         \* holder of GovernanceDatabase.lock, or NoThread
    db_writer,    \* the connection that holds SQLite's write lock
    pending,      \* per thread: the rows its connection inserted, uncommitted
    pc,           \* per thread: where its current call stands
    call,         \* per thread: the call in progress
    ret,          \* per thread: what its last call gave its caller
    config,       \* AIGovernanceMCP.config
    now,          \* the clock
    calls,        \* history: calls issued
    adds,         \* history: add_audit_entry calls issued
    hashes,       \* history: add_audit_entry calls that returned a hash
    tampered,     \* history: the change made to the file from outside
    arg,          \* input of a function applied on its own
    out           \* its result, <<>> before it is applied

vars == <<audit_log, last_id, statistics, lock, db_writer, pending, pc, call,
          ret, config, now, calls, adds, hashes, tampered, arg, out>>

ledger == <<audit_log, last_id, statistics>>
history == <<calls, adds, hashes>>
aside == <<tampered, arg, out>>

\* The server's event loop runs the tool handlers on one thread; the other
\* threads call the shared GovernanceDatabase directly.
ServerThread == 1

\* conn = sqlite3.connect(self.db_path): each of add_audit_entry and
\* _update_statistics opens a connection of its own.
AddConnection(t) == <<t, "add_audit_entry">>
StatisticsConnection(t) == <<t, "_update_statistics">>

NoCall == [via |-> "none"]
NoResult == [kind |-> "none"]
NoTamper == [id |-> 0, field |-> "none", valid_before |-> FALSE]

\* Every variable but the contents of the database file and the server's
\* configuration, as GovernanceDatabase.__init__ and the first call find them.
Quiet ==
    /\ lock = NoThread
    /\ db_writer = NoConnection
    /\ pending = [t \in Threads |-> <<>>]
    /\ pc = [t \in Threads |-> "idle"]
    /\ call = [t \in Threads |-> NoCall]
    /\ ret = [t \in Threads |-> NoResult]
    /\ now = 1
    /\ calls = 0
    /\ adds = 0
    /\ hashes = 0

\* A server started on a new database file: init_db creates the empty tables.
Init ==
    /\ audit_log = <<>>
    /\ last_id = 0
    /\ statistics = EmptyDict
    /\ config \in {DefaultConfig, FixtureConfig}
    /\ Quiet
    /\ tampered = NoTamper
    /\ arg = <<>>
    /\ out = <<>>

\* ------------------------------------------------------------- callers
\* entries a direct caller passes to add_audit_entry: a complete one, as
\* test_hash_chain builds them, and one that leaves keys to the defaults
DirectEntries(clock) ==
    {[timestamp |-> clock, event_type |-> "test", original_text |-> T_hi,
      action_taken |-> "blocked"],
     [original_text |-> T_email, user_id |-> "u1",
      pii_detected |-> <<[type |-> "email"]>>]}

ScanArgs ==
    {[prompt |-> T_hi],
     [prompt |-> T_Sue, context |-> [user_id |-> "u1"]],
     [prompt |-> T_invest],
     [prompt |-> T_email_sue],
     [prompt |-> T_long],
     [prompt |-> T_full],
     [prompt |-> T_over]}

ConfigureArgs ==
    {[audit_logging_enabled |-> FALSE],
     [audit_logging_enabled |-> TRUE, extended_patterns |-> TRUE]}

\* a thread other than the server's calls db.add_audit_entry(entry)
CallAdd(t, entry) ==
    /\ t # ServerThread
    /\ pc[t] = "idle"
    /\ calls < MaxCalls
    /\ pc' = [pc EXCEPT ![t] = "add_wait"]
    /\ call' = [call EXCEPT ![t] = [via |-> "db", entry |-> entry]]
    /\ ret' = [ret EXCEPT ![t] = NoResult]
    /\ calls' = calls + 1
    /\ adds' = adds + 1
    /\ now' = now + 1
    /\ UNCHANGED <<ledger, lock, db_writer, pending, config, hashes, aside>>

\* handle_call_tool("scan_prompt", args): _scan_prompt up to its call of
\* db.add_audit_entry, or to its return when the prompt is too long or audit
\* logging is off
ScanPrompt(t, args) ==
    /\ t = ServerThread
    /\ pc[t] = "idle"
    /\ calls < MaxCalls
    /\ calls' = calls + 1
    /\ IF TooLong(args, config)
       THEN /\ ret' = [ret EXCEPT ![t] =
                         [kind |-> "result", args |-> args,
                          result |-> LengthError(config)]]
            /\ UNCHANGED <<pc, call, adds>>
       ELSE LET scan == Scan(args, config)
                result == ScanResult(scan)
            IN IF Get(config, "audit_logging_enabled", TRUE)
               THEN /\ pc' = [pc EXCEPT ![t] = "add_wait"]
                    /\ call' = [call EXCEPT ![t] =
                                  [via |-> "tool", args |-> args, result |-> result,
                                   entry |-> AuditEntry(args, scan, result, now)]]
                    /\ ret' = [ret EXCEPT ![t] = NoResult]
                    /\ adds' = adds + 1
               ELSE /\ ret' = [ret EXCEPT ![t] =
                                 [kind |-> "result", args |-> args, result |-> result]]
                    /\ UNCHANGED <<pc, call, adds>>
    /\ now' = now + 1
    /\ UNCHANGED <<ledger, lock, db_writer, pending, config, hashes, aside>>

\* handle_call_tool("configure", args)
Configure(t, args) ==
    /\ t = ServerThread
    /\ pc[t] = "idle"
    /\ config' = Configured(config, args)
    /\ ret' = [ret EXCEPT ![t] = [kind |-> "configured", config |-> config']]
    /\ UNCHANGED <<ledger, lock, db_writer, pending, pc, call, now, history, aside>>

\* ------------------------------------------------------------- add_audit_entry
\* add_audit_entry entered without "with self.lock"
AcquireWithoutLock(t) ==
    /\ pc[t] = "add_wait"
    /\ pc' = [pc EXCEPT ![t] = "locked"]
    /\ UNCHANGED <<ledger, lock, db_writer, pending, call, ret, config, now, history,
                   aside>>

\* with self.lock:
Acquire(t) ==
    /\ pc[t] = "add_wait"
    /\ lock = NoThread
    /\ lock' = t
    /\ pc' = [pc EXCEPT ![t] = "locked"]
    /\ UNCHANGED <<ledger, db_writer, pending, call, ret, config, now, history, aside>>

\* From sqlite3.connect to the INSERT INTO audit_log.  The INSERT opens the
\* connection's write transaction and needs SQLite's write lock: when another
\* connection still holds it the statement ends, after the busy timeout, in
\* OperationalError, which leaves the with block and releases self.lock.
InsertRow(t) ==
    /\ pc[t] = "locked"
    /\ IF db_writer = NoConnection
       THEN /\ pending' = [pending EXCEPT ![t] =
                             <<InsertedRow(call[t].entry, audit_log, last_id, now)>>]
            /\ db_writer' = AddConnection(t)
            /\ pc' = [pc EXCEPT ![t] = "inserted"]
            /\ UNCHANGED lock
       ELSE /\ pc' = [pc EXCEPT ![t] = "raised"]
            /\ lock' = NoThread
            /\ UNCHANGED <<pending, db_writer>>
    /\ UNCHANGED <<ledger, call, ret, config, now, history, aside>>

\* what add_audit_entry's caller has once it returned entry_hash: a direct
\* caller the hash, the caller of scan_prompt the result with audit_hash
Success(c, entry_hash) ==
    IF c.via = "tool"
    THEN [kind |-> "result", args |-> c.args, result |-> c.result,
          audit_hash |-> entry_hash]
    ELSE [kind |-> "hash", entry |-> c.entry, hash |-> entry_hash]

\* add_audit_entry keeping self.lock when _update_statistics raises
UpdateStatisticsHoldingLock(t) ==
    /\ pc[t] = "inserted"
    /\ IF db_writer \in {NoConnection, StatisticsConnection(t)}
       THEN /\ statistics' = UpdatedStatistics(statistics, call[t].entry, DateOf(now))
            /\ audit_log' = audit_log \o pending[t]
            /\ last_id' = pending[t][1].id
            /\ pending' = [pending EXCEPT ![t] = <<>>]
            /\ ret' = [ret EXCEPT ![t] = Success(call[t], pending[t][1].hash)]
            /\ call' = [call EXCEPT ![t] = NoCall]
            /\ pc' = [pc EXCEPT ![t] = "idle"]
            /\ hashes' = hashes + 1
            /\ db_writer' = NoConnection
            /\ lock' = NoThread
       ELSE /\ pc' = [pc EXCEPT ![t] = "raised"]
            /\ UNCHANGED <<ledger, pending, db_writer, ret, call, hashes, lock>>
    /\ UNCHANGED <<config, now, calls, adds, aside>>

\* self._update_statistics(entry), conn.commit(), conn.close(), return.
\* _update_statistics writes the day's row through StatisticsConnection(t).
\* That write needs SQLite's write lock; while AddConnection(t), whose
\* transaction holds the inserted row, has it, the write waits out its timeout
\* and raises OperationalError("database is locked"), and the exception leaves
\* the with block, which releases self.lock, with AddConnection(t) neither
\* committed nor closed.  With the write lock free, StatisticsConnection(t)
\* commits the statistics row, and AddConnection(t) then commits the audit_log
\* row and the function returns the hash.
UpdateStatisticsAndCommit(t) ==
    /\ pc[t] = "inserted"
    /\ IF db_writer \in {NoConnection, StatisticsConnection(t)}
       THEN /\ statistics' = UpdatedStatistics(statistics, call[t].entry, DateOf(now))
            /\ audit_log' = audit_log \o pending[t]
            /\ last_id' = pending[t][1].id
            /\ pending' = [pending EXCEPT ![t] = <<>>]
            /\ ret' = [ret EXCEPT ![t] = Success(call[t], pending[t][1].hash)]
            /\ call' = [call EXCEPT ![t] = NoCall]
            /\ pc' = [pc EXCEPT ![t] = "idle"]
            /\ hashes' = hashes + 1
            /\ db_writer' = NoConnection
       ELSE /\ pc' = [pc EXCEPT ![t] = "raised"]
            /\ UNCHANGED <<ledger, pending, db_writer, ret, call, hashes>>
    /\ lock' = NoThread
    /\ UNCHANGED <<config, now, calls, adds, aside>>

\* what the caller has once add_audit_entry raised: a direct caller the
\* exception, the caller of scan_prompt handle_call_tool's error result
Failure(c) ==
    IF c.via = "tool"
    THEN [kind |-> "error", args |-> c.args, error |-> "database is locked",
          tool |-> "scan_prompt"]
    ELSE [kind |-> "raised", entry |-> c.entry, error |-> "database is locked"]

\* closing the connection with its transaction committed
AfterCloseCommitted(log, uncommitted) == log \o uncommitted

\* The rows of audit_log once a connection that raised is gone: it is closed
\* without a commit, and its transaction rolled back.
AfterClose(log, uncommitted) == log

\* The exception reaches the caller of add_audit_entry.  The frames that held
\* the connections are released and the connections closed.
HandleError(t) ==
    /\ pc[t] = "raised"
    /\ audit_log' = AfterClose(audit_log, pending[t])
    /\ pending' = [pending EXCEPT ![t] = <<>>]
    /\ db_writer' = IF db_writer = AddConnection(t) THEN NoConnection ELSE db_writer
    /\ ret' = [ret EXCEPT ![t] = Failure(call[t])]
    /\ call' = [call EXCEPT ![t] = NoCall]
    /\ pc' = [pc EXCEPT ![t] = "idle"]
    /\ UNCHANGED <<last_id, statistics, lock, config, now, history, aside>>

\* ------------------------------------------------------------- reads
\* db.get_audit_logs(limit=10) and db.verify_hash_chain(): each runs its
\* statements under self.lock, on a connection that sees the committed rows.
\* The result is kept with the number of appends issued before the call and
\* whether none of them was still in progress.
GetAuditLogs(t) ==
    /\ pc[t] = "idle"
    /\ calls < MaxCalls
    /\ lock = NoThread
    /\ ret' = [ret EXCEPT ![t] =
                 [kind |-> "logs", appends |-> adds,
                  quiet |-> \A u \in Threads : pc[u] = "idle",
                  logs |-> get_audit_logs(audit_log, 10, 0, EmptyDict)]]
    /\ calls' = calls + 1
    /\ UNCHANGED <<ledger, lock, db_writer, pending, pc, call, config, now, adds,
                   hashes, aside>>

VerifyHashChain(t) ==
    /\ pc[t] = "idle"
    /\ calls < MaxCalls
    /\ lock = NoThread
    /\ ret' = [ret EXCEPT ![t] =
                 [kind |-> "verify", appends |-> adds,
                  quiet |-> \A u \in Threads : pc[u] = "idle",
                  verify |-> verify_hash_chain(audit_log, 0)]]
    /\ calls' = calls + 1
    /\ UNCHANGED <<ledger, lock, db_writer, pending, pc, call, config, now, adds,
                   hashes, aside>>

Next ==
    \/ \E t \in Threads : \E entry \in DirectEntries(now) : CallAdd(t, entry)
    \/ \E t \in Threads : \E args \in ScanArgs : ScanPrompt(t, args)
    \/ \E t \in Threads : \E args \in ConfigureArgs : Configure(t, args)
    \/ \E t \in Threads : Acquire(t)
    \/ \E t \in Threads : InsertRow(t)
    \/ \E t \in Threads : UpdateStatisticsAndCommit(t)
    \/ \E t \in Threads : HandleError(t)
    \/ \E t \in Threads : GetAuditLogs(t)
    \/ \E t \in Threads : VerifyHashChain(t)

Spec == Init /\ [][Next]_vars

\* ------------------------------------------------------------- the decision
\* The decision of _scan_prompt applied to lists of findings and violations
\* given to it directly.  A violation is the PolicyViolation check_policies
\* builds for a rule; a rule's action is any of the PolicyAction values.
PolicyActions == {"allow", "warn", "block", "redact"}

ViolationOf(action) ==
    [policy_name |-> "custom_rule",
     category |-> "general",
     matched_keyword |-> <<"k">>,
     action |-> action,
     message |-> "Policy violation detected",
     severity |-> "medium"]

ViolationLists ==
    UNION {[1..n -> {ViolationOf(a) : a \in PolicyActions}] : n \in 0..MaxViolations}

FindingLists == {<<>>, detect_pii(T_email, FALSE)}

InitDecide ==
    /\ audit_log = <<>>
    /\ last_id = 0
    /\ statistics = EmptyDict
    /\ config = DefaultConfig
    /\ Quiet
    /\ tampered = NoTamper
    /\ arg \in [prompt : {T_email},
                pii_matches : FindingLists,
                policy_violations : ViolationLists]
    /\ out = <<>>

Decide ==
    /\ out = <<>>
    /\ out' = ScanResult(Decision(arg.prompt, arg.pii_matches, arg.policy_violations,
                                  Get(config, "auto_redact", TRUE), config))
    /\ UNCHANGED <<ledger, lock, db_writer, pending, pc, call, ret, config, now,
                   history, tampered, arg>>

NextDecide == Decide

SpecDecide == InitDecide /\ [][NextDecide]_vars

\* ------------------------------------------------------------- an existing file
\* GovernanceDatabase(db_path) on a database file that exists: init_db leaves
\* its tables as they are.  The rows are those add_audit_entry writes for a
\* sequence of entries, each inserted after the one before it was committed.
RECURSIVE StoredRows(_)
StoredRows(items) ==
    IF items = <<>> THEN <<>>
    ELSE LET rows == StoredRows(SubSeq(items, 1, Len(items) - 1))
             last == items[Len(items)]
         IN Append(rows, InsertedRow(last.entry, rows, Len(rows), last.clock))

StoredItems ==
    UNION {{[entry |-> e, clock |-> c] : e \in DirectEntries(c)} : c \in 1..MaxTime}

StoredLedgers ==
    {StoredRows(items) : items \in UNION {[1..n -> StoredItems] : n \in 0..MaxRows}}

InitStore ==
    /\ audit_log \in StoredLedgers
    /\ last_id = Len(audit_log)
    /\ statistics = EmptyDict
    /\ config = DefaultConfig
    /\ Quiet
    /\ tampered = NoTamper
    /\ arg = <<>>
    /\ out = <<>>

\* the columns of table audit_log but the key
Columns ==
    {"timestamp", "event_type", "original_text", "redacted_text", "pii_detected",
     "policy_violations", "action_taken", "user_id", "session_id", "metadata",
     "hash", "prev_hash"}

\* values another process may write into a column of the file
Forged(column) ==
    CASE column = "timestamp" -> 1..(MaxTime + 1)
      [] column = "event_type" -> {"scan", "test"}
      [] column \in {"original_text", "redacted_text"} -> {T_hi, T_Sue}
      [] column \in {"pii_detected", "policy_violations"} ->
             {JsonDumps(<<>>), JsonDumps(<<[type |-> "ssn"]>>)}
      [] column = "action_taken" -> {"allowed", "blocked"}
      [] column \in {"user_id", "session_id"} -> {None, "u2"}
      [] column = "metadata" -> {JsonDumps(EmptyDict), JsonDumps([user_id |-> "u2"])}
      [] column \in {"hash", "prev_hash"} ->
             {Genesis, calculate_hash([original_text |-> T_Sue], Genesis)}

\* Another process, with the file open, changes one column of one row.
\* Results read before the change are dropped: the calls observed are the ones
\* made after it.
Tamper(k, column, value) ==
    /\ tampered = NoTamper
    /\ k \in 1..Len(audit_log)
    /\ value # audit_log[k][column]
    /\ audit_log' = [audit_log EXCEPT ![k] = [@ EXCEPT ![column] = value]]
    /\ tampered' =
         [id |-> audit_log[k].id,
          field |-> column,
          valid_before |->
              LET before == verify_hash_chain(audit_log, 0).invalid_entries
              IN \A i \in 1..Len(before) : before[i].id # audit_log[k].id]
    /\ ret' = [t \in Threads |-> NoResult]
    /\ UNCHANGED <<last_id, statistics, lock, db_writer, pending, pc, call, config,
                   now, history, arg, out>>

NextStore ==
    \/ \E k \in 1..MaxRows : \E column \in Columns : \E value \in Forged(column) :
          Tamper(k, column, value)
    \/ \E t \in Threads : GetAuditLogs(t)
    \/ \E t \in Threads : VerifyHashChain(t)

SpecStore == InitStore /\ [][NextStore]_vars

\* ------------------------------------------------------------- purge
\* A GovernanceDatabase opened, some time after its rows were written, on an
\* existing file, by threads that read and purge.  The statistics rows are
\* the ones _update_statistics wrote for the stored entries.
RECURSIVE StoredStatistics(_)
StoredStatistics(items) ==
    IF items = <<>> THEN EmptyDict
    ELSE LET last == items[Len(items)]
         IN UpdatedStatistics(StoredStatistics(SubSeq(items, 1, Len(items) - 1)),
                              last.entry, DateOf(last.clock))

\* the clock when the file is opened: not before its rows were written
StartTimes == {MaxTime, MaxTime + 2}

\* days_to_keep passed to cleanup_old_logs
DaysToKeep == {0, 1}

InitPurge ==
    /\ \E items \in UNION {[1..n -> StoredItems] : n \in 0..MaxRows} :
          /\ audit_log = StoredRows(items)
          /\ statistics = StoredStatistics(items)
    /\ last_id = Len(audit_log)
    /\ config = DefaultConfig
    /\ lock = NoThread
    /\ db_writer = NoConnection
    /\ pending = [t \in Threads |-> <<>>]
    /\ pc = [t \in Threads |-> "idle"]
    /\ call = [t \in Threads |-> NoCall]
    /\ ret = [t \in Threads |-> NoResult]
    /\ now \in StartTimes
    /\ calls = 0
    /\ adds = 0
    /\ hashes = 0
    /\ tampered = NoTamper
    /\ arg = <<>>
    /\ out = <<>>

\* db.cleanup_old_logs(days_to_keep), under self.lock: the DELETE needs SQLite's
\* write lock and raises OperationalError while another connection holds it;
\* otherwise the rows before the cutoff are deleted and their number returned.
\* The purge is kept as history: the id of the first surviving row, and
\* whether the rows deleted were all older than the rows kept.
CleanupOldLogs(t, days_to_keep) ==
    /\ t # ServerThread
    /\ pc[t] = "idle"
    /\ calls < MaxCalls
    /\ lock = NoThread
    /\ calls' = calls + 1
    /\ IF db_writer = NoConnection
       THEN LET kept == RowsKept(audit_log, now - 2 * days_to_keep)
                deleted == Len(audit_log) - Len(kept)
            IN /\ audit_log' = kept
               /\ ret' = [ret EXCEPT ![t] = [kind |-> "deleted", deleted |-> deleted]]
               /\ tampered' =
                     IF deleted = 0 THEN tampered
                     ELSE [id |-> IF kept = <<>> THEN 0 ELSE kept[1].id,
                           field |-> "purged",
                           valid_before |->
                               /\ kept # <<>>
                               /\ \A i \in 1..Len(kept) :
                                     kept[i].id = audit_log[deleted + i].id]
       ELSE /\ ret' = [ret EXCEPT ![t] =
                         [kind |-> "raised", error |-> "database is locked"]]
            /\ UNCHANGED <<audit_log, tampered>>
    /\ UNCHANGED <<last_id, statistics, lock, db_writer, pending, pc, call, config,
                   now, adds, hashes, arg, out>>

\* days passed to get_statistics
StatisticsDays == {7}

\* db.get_statistics(days), under self.lock
GetStatistics(t, days) ==
    /\ pc[t] = "idle"
    /\ calls < MaxCalls
    /\ lock = NoThread
    /\ ret' = [ret EXCEPT ![t] =
                 [kind |-> "statistics",
                  statistics |-> get_statistics(statistics, DateOf(now), days)]]
    /\ calls' = calls + 1
    /\ UNCHANGED <<ledger, lock, db_writer, pending, pc, call, config, now, adds,
                   hashes, aside>>

NextPurge ==
    \/ \E t \in Threads : GetAuditLogs(t)
    \/ \E t \in Threads : VerifyHashChain(t)
    \/ \E t \in Threads : \E days \in StatisticsDays : GetStatistics(t, days)
    \/ \E t \in Threads : \E days_to_keep \in DaysToKeep : CleanupOldLogs(t, days_to_keep)

SpecPurge == InitPurge /\ [][NextPurge]_vars

\* ------------------------------------------------------------- a ledger in use
\* A GovernanceDatabase opened on an existing file whose chain is intact, by
\* threads that append, read and purge.
InitLive ==
    /\ InitPurge
    /\ verify_hash_chain(audit_log, 0).valid

NextLive ==
    \/ \E t \in Threads : \E entry \in DirectEntries(now) : CallAdd(t, entry)
    \/ \E t \in Threads : Acquire(t)
    \/ \E t \in Threads : InsertRow(t)
    \/ \E t \in Threads : UpdateStatisticsAndCommit(t)
    \/ \E t \in Threads : HandleError(t)
    \/ NextPurge

SpecLive == InitLive /\ [][NextLive]_vars

\* ------------------------------------------------------------- exports
\* The ledger in use, with exports among the reads.
ExportFormats == {"json", "csv", "xml"}

\* db.export_logs(format), which reads through get_audit_logs under self.lock
ExportLogs(t, format) ==
    /\ pc[t] = "idle"
    /\ calls < MaxCalls
    /\ lock = NoThread
    /\ ret' = [ret EXCEPT ![t] = export_logs(audit_log, format, EmptyDict)]
    /\ calls' = calls + 1
    /\ UNCHANGED <<ledger, lock, db_writer, pending, pc, call, config, now, adds,
                   hashes, aside>>

NextExport ==
    \/ NextLive
    \/ \E t \in Threads : \E format \in ExportFormats : ExportLogs(t, format)

SpecExport == InitLive /\ [][NextExport]_vars

\* ------------------------------------------------------------- statistics
\* get_statistics applied to a statistics table: a row for some of the days
\* 1..MaxDays, each the row _update_statistics leaves after the entries of a
\* day, read on a day today with a window of days days.
MaxDays == 3

DayRows ==
    {StoredStatistics(<<[entry |-> [original_text |-> T_hi], clock |-> 1]>>)[1],
     StoredStatistics(<<[entry |-> [original_text |-> T_hi], clock |-> 1],
                        [entry |-> [action_taken |-> "blocked",
                                    pii_detected |-> <<[type |-> "email"]>>,
                                    policy_violations |-> <<[policy |-> "legal_advice"]>>],
                         clock |-> 1]>>)[1]}

StatisticsTables == UNION {[dates -> DayRows] : dates \in SUBSET (1..MaxDays)}

InitStatistics ==
    /\ audit_log = <<>>
    /\ last_id = 0
    /\ statistics \in StatisticsTables
    /\ config = DefaultConfig
    /\ Quiet
    /\ tampered = NoTamper
    /\ arg \in [today : 1..(MaxDays + 1), days : 0..(MaxDays + 1)]
    /\ out = <<>>

ApplyGetStatistics ==
    /\ out = <<>>
    /\ out' = get_statistics(statistics, arg.today, arg.days)
    /\ UNCHANGED <<ledger, lock, db_writer, pending, pc, call, ret, config, now,
                   history, tampered, arg>>

NextStatistics == ApplyGetStatistics

SpecStatistics == InitStatistics /\ [][NextStatistics]_vars

\* ------------------------------------------------------------- card numbers
\* validate_credit_card applied to card numbers: the numbers of
\* TestCreditCardValidation, each with every digit in place of its last one,
\* plain, in groups of four separated by '-' or by a space, and with
\* separators of both kinds; and inputs that are not numbers.
DigitChars == <<"0", "1", "2", "3", "4", "5", "6", "7", "8", "9">>

Card(digits) == [i \in 1..Len(digits) |-> DigitChars[digits[i] + 1]]

Visa == Card(<<4, 5, 3, 2, 1, 4, 8, 8, 0, 3, 4, 3, 6, 4, 6, 7>>)
Mastercard == Card(<<5, 4, 2, 5, 2, 3, 3, 4, 3, 0, 1, 0, 9, 9, 0, 3>>)
Amex == Card(<<3, 7, 1, 4, 4, 9, 6, 3, 5, 3, 9, 8, 4, 3, 1>>)
Counting == Card(<<1, 2, 3, 4, 5, 6, 7, 8, 9, 0, 1, 2, 3, 4, 5, 6>>)
Zeros == Card(<<0, 0, 0, 0, 0, 0, 0, 0, 0, 0, 0, 0, 0, 0, 0, 0>>)
Nines == Card(<<9, 9, 9, 9, 9, 9, 9, 9, 9, 9, 9, 9, 9, 9, 9, 9>>)

\* the number with the digit d in place of its last digit
WithLastDigit(number, d) == [number EXCEPT ![Len(number)] = d]

\* the number written in groups of four digits separated by '-'
RECURSIVE Grouped(_)
Grouped(number) ==
    IF Len(number) <= 4 THEN number
    ELSE SubSeq(number, 1, 4) \o <<"-">> \o Grouped(SubSeq(number, 5, Len(number)))

\* the number with sep after each of its digits but the last
RECURSIVE Spread(_, _)
Spread(number, sep) ==
    IF Len(number) <= 1 THEN number
    ELSE <<number[1]>> \o sep \o Spread(SubSeq(number, 2, Len(number)), sep)

\* inputs that hold no digit, or a character that is not a digit
NotNumbers ==
    {<<>>, <<"-">>, <<" ">>, <<"-", " ">>, <<"4", "x">>, <<"x">>, <<"sup2">>,
     <<"4", "-", "sup2">>, <<"0", "0", " ", "x", "0">>, <<"sup2", "x">>}

CardNumbers ==
    LET plain == {WithLastDigit(number, DigitChars[k]) :
                     number \in {Visa, Mastercard, Amex, Counting, Zeros, Nines},
                     k \in 1..Len(DigitChars)}
    IN plain \cup {Grouped(number) : number \in plain}
             \cup {[i \in 1..Len(Grouped(number)) |->
                       IF Grouped(number)[i] = "-" THEN " " ELSE Grouped(number)[i]] :
                    number \in plain}
             \cup {Spread(number, sep) : number \in plain,
                                         sep \in {<<" ">>, <<"-", " ">>, <<"\t">>}}
             \cup NotNumbers

InitCard ==
    /\ audit_log = <<>>
    /\ last_id = 0
    /\ statistics = EmptyDict
    /\ config = DefaultConfig
    /\ Quiet
    /\ tampered = NoTamper
    /\ arg \in CardNumbers
    /\ out = <<>>

ValidateCard ==
    /\ out = <<>>
    /\ out' = IF validate_credit_card_raises(arg)
              THEN [raised |-> "ValueError", valid |-> FALSE]
              ELSE [raised |-> None, valid |-> validate_credit_card(arg)]
    /\ UNCHANGED <<ledger, lock, db_writer, pending, pc, call, ret, config, now,
                   history, tampered, arg>>

NextCard == ValidateCard

SpecCard == InitCard /\ [][NextCard]_vars

\* ------------------------------------------------------------- texts
\* detect_pii, redact_pii and check_policies applied to texts: the texts of
\* the tests and texts with several findings or several violations.
T_visa == <<"P", "a", "y", "m", "e", "n", "t", " ", "c", "a", "r", "d", ":", " ", "4", "5", "3", "2", "-", "1", "4", "8", "8", "-", "0", "3", "4", "3", "-", "6", "4", "6", "7">>
T_counting == <<"P", "a", "y", "m", "e", "n", "t", " ", "c", "a", "r", "d", ":", " ", "1", "2", "3", "4", "-", "5", "6", "7", "8", "-", "9", "0", "1", "2", "-", "3", "4", "5", "6">>
T_mastercard == <<"c", "a", "r", "d", " ", "5", "4", "2", "5", "-", "2", "3", "3", "4", "-", "3", "0", "1", "0", "-", "9", "9", "0", "3">>
T_zeros == <<"0", "0", "0", "0", "-", "0", "0", "0", "0", "-", "0", "0", "0", "0", "-", "0", "0", "0", "0">>
T_email_ssn == <<"a", "@", "b", ".", "c", "o", " ", "1", "2", "3", "-", "4", "5", "-", "6", "7", "8", "9">>
T_ssn_email == <<"1", "2", "3", "-", "4", "5", "-", "6", "7", "8", "9", " ", "a", "@", "b", ".", "c", "o">>
T_emails == <<"a", "@", "b", ".", "c", "o", " ", "a", "@", "b", ".", "c", "o">>
T_passport == <<"A", "1", "2", "3", "4", "5", "6", "7">>
T_ssn == <<"S", "S", "N", ":", " ", "1", "2", "3", "-", "4", "5", "-", "6", "7", "8", "9">>
T_can_sue == <<"c", "a", "n", " ", "i", " ", "s", "u", "e">>
T_lawyer == <<"l", "a", "w", "y", "e", "r", " ", "a", "t", "t", "o", "r", "n", "e", "y">>
T_legal == <<"i", "s", " ", "t", "h", "i", "s", " ", "l", "e", "g", "a", "l">>
T_invest_lawyer == <<"i", "n", "v", "e", "s", "t", " ", "i", "n", " ", "a", " ", "l", "a", "w", "y", "e", "r">>
T_competitor == <<"c", "o", "m", "p", "e", "t", "i", "t", "o", "r", " ", "p", "r", "i", "c", "i", "n", "g">>
T_template == <<"$", "{", "x", "}">>
T_phoenix == <<"P", "r", "o", "j", "e", "c", "t", " ", "P", "h", "o", "e", "n", "i", "x">>
T_email_or_sue == <<"a", "@", "b", ".", "c", "o", " ", "o", "r", " ", "s", "u", "e">>

Texts ==
    {<<>>, T_hi, T_visa, T_counting, T_mastercard, T_zeros, T_email_ssn,
     T_ssn_email, T_emails, T_passport, T_ssn, T_can_sue,
     T_lawyer, T_legal, T_invest_lawyer, T_competitor, T_template,
     T_phoenix, T_email_or_sue}

\* redaction styles: the three named ones and a literal of the caller
Styles == {RedactedLiteral, RedactedType, RedactedXXX, <<"*">>}

\* a finding of the caller over the first n characters of the text
ShortFinding(n) ==
    [type |-> "ssn", name |-> <<"S", "S", "N">>, value |-> <<>>,
     start |-> 0, end |-> n, severity |-> "high"]

\* a list in the opposite order
Reversed(matches) == [j \in 1..Len(matches) |-> matches[Len(matches) + 1 - j]]

\* the lists of findings handed to redact_pii for a text
FindingsFor(text) ==
    {<<>>, detect_pii(text, FALSE), detect_pii(text, TRUE)}
    \cup {<<ShortFinding(n)>> : n \in {k \in 1..3 : k <= Len(text)}}
    \cup {Reversed(detect_pii(text, extended)) : extended \in BOOLEAN}
    \cup {Reversed(<<ShortFinding(n)>> \o detect_pii(text, FALSE)) :
             n \in {k \in 1..3 : k <= Len(text)}}

\* custom_policies of the caller: none, a rule with a new name, a rule with
\* the name of a built-in rule, and both
CompanySecret ==
    <<"company_secret",
      [category |-> "confidential",
       keywords |-> <<<<"p", "r", "o", "j", "e", "c", "t", " ", "p", "h", "o", "e", "n", "i", "x">>,
                      <<"o", "p", "e", "r", "a", "t", "i", "o", "n", " ", "u", "m", "b", "r", "e", "l", "l", "a">>>>,
       action |-> "block",
       message |-> "Company secrets detected",
       severity |-> "critical"]>>

CustomPolicies ==
    {<<>>,
     <<CompanySecret>>,
     <<<<"legal_advice", [keywords |-> <<<<"p", "h", "o", "e", "n", "i", "x">>>>]>>>>,
     <<<<"legal_advice", [keywords |-> <<<<"p", "h", "o", "e", "n", "i", "x">>>>, severity |-> "low"]>>,
       <<"company_secret", [keywords |-> <<<<"s", "u", "e">>>>]>>>>,
     <<CompanySecret,
       <<"internal_data", [category |-> "confidential", action |-> "block",
                           regex_patterns |-> <<"internal_data#1">>]>>>>}

\* The module's POLICY_RULES after check_policies(text, extended,
\* custom_policies): the call updates the copy it makes of the table.
policy_rules_after(rules, extended, custom_policies) == rules

InitText ==
    /\ audit_log = <<>>
    /\ last_id = 0
    /\ statistics = EmptyDict
    /\ config = DefaultConfig
    /\ Quiet
    /\ tampered = NoTamper
    /\ arg \in Texts
    /\ out = <<>>

Unchanged_but_out ==
    UNCHANGED <<ledger, lock, db_writer, pending, pc, call, ret, config, now,
                history, tampered, arg>>

DetectPii(extended) ==
    /\ out = <<>>
    /\ out' = [op |-> "detect_pii", extended |-> extended,
               matches |-> detect_pii(arg, extended)]
    /\ Unchanged_but_out

RedactPii(matches, redaction_style) ==
    /\ out = <<>>
    /\ out' = [op |-> "redact_pii", matches |-> matches,
               redaction_style |-> redaction_style,
               redacted |-> redact_pii(arg, matches, redaction_style)]
    /\ Unchanged_but_out

CheckPolicies(extended, custom_policies) ==
    /\ out = <<>>
    /\ out' = [op |-> "check_policies", extended |-> extended,
               custom_policies |-> custom_policies,
               violations |-> check_policies(arg, extended, custom_policies),
               POLICY_RULES |-> policy_rules_after(POLICY_RULES, extended,
                                                   custom_policies)]
    /\ Unchanged_but_out

NextText ==
    \/ \E extended \in BOOLEAN : DetectPii(extended)
    \/ \E matches \in FindingsFor(arg), redaction_style \in Styles :
          RedactPii(matches, redaction_style)
    \/ \E extended \in BOOLEAN, custom_policies \in CustomPolicies :
          CheckPolicies(extended, custom_policies)

SpecText == InitText /\ [][NextText]_vars

\* ------------------------------------- two instances on one database file
\* Each thread has a GovernanceDatabase of its own, opened on the same file:
\* the server the one its constructor makes, the other caller one it opens.
\* __init__ gives each instance a new threading.Lock, so "with self.lock"
\* of one instance never waits for the thread inside the other; the lock an
\* instance releases is its own, and variable lock, the lock of an instance
\* shared by the threads, stays free.
AcquireOwnLock(t) ==
    /\ pc[t] = "add_wait"
    /\ pc' = [pc EXCEPT ![t] = "locked"]
    /\ UNCHANGED <<ledger, lock, db_writer, pending, call, ret, config, now, history,
                   aside>>

NextInstances ==
    \/ \E t \in Threads : \E entry \in DirectEntries(now) : CallAdd(t, entry)
    \/ \E t \in Threads : \E args \in ScanArgs : ScanPrompt(t, args)
    \/ \E t \in Threads : AcquireOwnLock(t)
    \/ \E t \in Threads : InsertRow(t)
    \/ \E t \in Threads : UpdateStatisticsAndCommit(t)
    \/ \E t \in Threads : HandleError(t)
    \/ \E t \in Threads : VerifyHashChain(t)

SpecInstances == Init /\ [][NextInstances]_vars

\* ------------------------------------------- verify_integrity with a limit
\* the limits a client passes to the verify_integrity tool
Limits == 0..(MaxRows + 1)

\* AIGovernanceMCP._verify_integrity(args): verify_hash_chain with the limit
\* of args, 100 when args has none.
VerifyIntegrity(args) ==
    /\ pc[ServerThread] = "idle"
    /\ calls < MaxCalls
    /\ lock = NoThread
    /\ LET limit == Get(args, "limit", 100)
       IN ret' = [ret EXCEPT ![ServerThread] =
                    [kind |-> "verify_integrity", args |-> args,
                     result |-> verify_hash_chain(audit_log, limit)]]
    /\ calls' = calls + 1
    /\ UNCHANGED <<ledger, lock, db_writer, pending, pc, call, config, now, adds,
                   hashes, aside>>

NextVerify ==
    \/ \E k \in 1..MaxRows : \E column \in Columns : \E value \in Forged(column) :
          Tamper(k, column, value)
    \/ VerifyIntegrity(EmptyDict)
    \/ \E limit \in Limits : VerifyIntegrity([limit |-> limit])

SpecVerify == InitStore /\ [][NextVerify]_vars

\* ------------------------------------------------- the tools that read
\* texts a client passes to check_compliance and redact_pii: one with
\* nothing to report, one with a finding, one with a violation, one with both
ToolTexts == {T_hi, T_email, T_Sue, T_email_sue}

\* what handle_call_tool answers when the tool raised
ToolError(name, args, error) ==
    [kind |-> "error", args |-> args, error |-> error, tool |-> name]

\* _check_compliance writing the day's statistics row, as a scan's append does
ToolCheckComplianceCounted(args) ==
    /\ pc[ServerThread] = "idle"
    /\ calls < MaxCalls
    /\ LET text == Get(args, "text", <<>>)
           pii_matches == detect_pii(text, Get(config, "extended_patterns", FALSE))
           policy_violations ==
               check_policies(text, Get(config, "extended_policies", FALSE), <<>>)
           compliant == Len(pii_matches) = 0 /\ Len(policy_violations) = 0
       IN /\ ret' = [ret EXCEPT ![ServerThread] =
                       [kind |-> "check_compliance", args |-> args,
                        result |->
                          [compliant |-> compliant,
                           issues |-> [pii |-> get_pii_summary(pii_matches),
                                       policy |-> get_policy_summary(policy_violations)],
                           recommendation |->
                              IF compliant THEN "Safe to send"
                              ELSE "Review and remediate issues"]]]
          /\ statistics' = UpdatedStatistics(statistics,
                                             [pii_detected |-> pii_matches,
                                              policy_violations |-> policy_violations],
                                             DateOf(now))
    /\ calls' = calls + 1
    /\ UNCHANGED <<audit_log, last_id, lock, db_writer, pending, pc, call, config, now,
                   adds, hashes, aside>>

\* AIGovernanceMCP._check_compliance(args)
ToolCheckCompliance(args) ==
    /\ pc[ServerThread] = "idle"
    /\ calls < MaxCalls
    /\ LET text == Get(args, "text", <<>>)
           pii_matches == detect_pii(text, Get(config, "extended_patterns", FALSE))
           policy_violations ==
               check_policies(text, Get(config, "extended_policies", FALSE), <<>>)
           compliant == Len(pii_matches) = 0 /\ Len(policy_violations) = 0
       IN ret' = [ret EXCEPT ![ServerThread] =
                    [kind |-> "check_compliance", args |-> args,
                     result |->
                       [compliant |-> compliant,
                        issues |-> [pii |-> get_pii_summary(pii_matches),
                                    policy |-> get_policy_summary(policy_violations)],
                        recommendation |->
                           IF compliant THEN "Safe to send"
                           ELSE "Review and remediate issues"]]]
    /\ calls' = calls + 1
    /\ UNCHANGED <<ledger, lock, db_writer, pending, pc, call, config, now, adds,
                   hashes, aside>>

\* AIGovernanceMCP._redact_pii(args)
ToolRedactPii(args) ==
    /\ pc[ServerThread] = "idle"
    /\ calls < MaxCalls
    /\ LET text == Get(args, "text", <<>>)
           style == Get(args, "style", Get(config, "redaction_style", RedactedLiteral))
           pii_matches == detect_pii(text, Get(config, "extended_patterns", FALSE))
           redacted == redact_pii(text, pii_matches, style)
       IN ret' = [ret EXCEPT ![ServerThread] =
                    [kind |-> "redact_pii", args |-> args,
                     result |->
                       [original |-> text,
                        redacted |-> redacted,
                        pii_found |-> Len(pii_matches),
                        pii_types |-> {pii_matches[k].type : k \in 1..Len(pii_matches)}]]]
    /\ calls' = calls + 1
    /\ UNCHANGED <<ledger, lock, db_writer, pending, pc, call, config, now, adds,
                   hashes, aside>>

\* AIGovernanceMCP._get_statistics(args): db.get_statistics, under self.lock
ToolGetStatistics(args) ==
    /\ pc[ServerThread] = "idle"
    /\ calls < MaxCalls
    /\ lock = NoThread
    /\ LET days == Get(args, "days", 7)
       IN ret' = [ret EXCEPT ![ServerThread] =
                    [kind |-> "get_statistics", args |-> args,
                     result |-> get_statistics(statistics, DateOf(now), days)]]
    /\ calls' = calls + 1
    /\ UNCHANGED <<ledger, lock, db_writer, pending, pc, call, config, now, adds,
                   hashes, aside>>

\* AIGovernanceMCP._export_audit_logs(args): db.export_logs, whose
\* get_audit_logs runs under self.lock; the ValueError of an unsupported
\* format is answered by handle_call_tool as an error result.
ToolExportAuditLogs(args) ==
    /\ pc[ServerThread] = "idle"
    /\ calls < MaxCalls
    /\ lock = NoThread
    /\ LET format_type == Get(args, "format", "json")
           filters == [k \in DOMAIN args \cap {"start_date", "end_date"} |-> args[k]]
           export_data == export_logs(audit_log, format_type, filters)
       IN ret' = [ret EXCEPT ![ServerThread] =
                    IF export_data.kind = "raised"
                    THEN ToolError("export_audit_logs", args, export_data.error)
                    ELSE [kind |-> "export_audit_logs", args |-> args,
                          result |-> [format |-> format_type,
                                      data |-> export_data.data,
                                      exported_at |-> now]]]
    /\ calls' = calls + 1
    /\ UNCHANGED <<ledger, lock, db_writer, pending, pc, call, config, now, adds,
                   hashes, aside>>

\* The tools of the server on a ledger with records and statistics, and a
\* purge by another thread.
NextTools ==
    \/ \E text \in ToolTexts : ToolCheckCompliance([text |-> text])
    \/ ToolRedactPii([text |-> T_email_sue])
    \/ ToolRedactPii([text |-> T_email, style |-> RedactedType])
    \/ ToolGetStatistics(EmptyDict)
    \/ ToolGetStatistics([days |-> 1])
    \/ ToolExportAuditLogs(EmptyDict)
    \/ \E format \in ExportFormats : ToolExportAuditLogs([format |-> format])
    \/ ToolExportAuditLogs([format |-> "csv", start_date |-> MaxTime])
    \/ VerifyIntegrity(EmptyDict)
    \/ VerifyIntegrity([limit |-> 1])
    \/ \E t \in Threads : \E days_to_keep \in DaysToKeep : CleanupOldLogs(t, days_to_keep)

SpecTools == InitLive /\ [][NextTools]_vars

\* ---------------------------------------------- calculate_hash on entries
\* An entry as its caller writes it: a dictionary literal, the keys in the
\* order written, as a sequence of <<key, value>>.
HashedFields ==
    {<<<<"timestamp", timestamp>>, <<"event_type", "scan">>,
       <<"original_text", original_text>>, <<"action_taken", action_taken>>>> :
        timestamp \in 1..2, original_text \in {T_hi, T_email},
        action_taken \in {"allowed", "blocked"}}
    \cup {<<<<"original_text", original_text>>>> : original_text \in {T_hi, T_email}}

OtherFields ==
    {<<>>,
     <<<<"user_id", "u1">>, <<"session_id", "s1">>>>,
     <<<<"redacted_text", T_hi>>, <<"pii_detected", <<[type |-> "email"]>>>>,
       <<"policy_violations", <<>>>>, <<"user_id", "u2">>,
       <<"metadata", <<<<"source", "test">>>>>>>>}

SuppliedEntries ==
    {hashed \o other : hashed \in HashedFields, other \in OtherFields}
    \cup {Reversed(hashed \o other) : hashed \in HashedFields, other \in OtherFields}

\* the dictionary a literal denotes: each key with the value written for it
DictOf(pairs) ==
    [key \in DictKeys(pairs) |->
        pairs[CHOOSE i \in 1..Len(pairs) : pairs[i][1] = key][2]]

InitHash ==
    /\ audit_log = <<>>
    /\ last_id = 0
    /\ statistics = EmptyDict
    /\ config = DefaultConfig
    /\ Quiet
    /\ tampered = NoTamper
    /\ arg \in [first : SuppliedEntries, second : SuppliedEntries,
                 prev_first : {Genesis, Sha256(T_hi)},
                 prev_second : {Genesis, Sha256(T_hi)}]
    /\ out = <<>>

CalculateHash ==
    /\ out = <<>>
    /\ out' = [op |-> "calculate_hash",
               first |-> calculate_hash(DictOf(arg.first), arg.prev_first),
               second |-> calculate_hash(DictOf(arg.second), arg.prev_second)]
    /\ Unchanged_but_out

NextHash == CalculateHash

SpecHash == InitHash /\ [][NextHash]_vars

\* ------------------------------------------------------------- properties
AllIdle == \A t \in Threads : pc[t] = "idle"

\* the hash of a stored row, recomputed from its own stored columns
StoredHash(row) ==
    calculate_hash([timestamp |-> row.timestamp,
                    event_type |-> row.event_type,
                    original_text |-> row.original_text,
                    action_taken |-> row.action_taken], row.prev_hash)

\* the rows form one chain from the genesis sentinel
Linked(rows) ==
    \A i \in 1..Len(rows) :
        rows[i].prev_hash = IF i = 1 THEN Genesis ELSE rows[i - 1].hash

\* total_scans summed over the statistics rows of the days 1..d
RECURSIVE TotalScans(_, _)
TotalScans(stats, d) ==
    IF d = 0 THEN 0
    ELSE (IF d \in DOMAIN stats THEN stats[d].total_scans ELSE 0)
         + TotalScans(stats, d - 1)

\* C1: once all the appends issued by the callers have ended, the ledger holds
\* one record for each of them, and the records form one linear chain from the
\* genesis sentinel: each prev_hash is the hash of the record before, and no
\* two records have the same prev_hash.
C1_AppendsFormOneChain ==
    (adds >= 1 /\ AllIdle) =>
        /\ Len(audit_log) = adds
        /\ Linked(audit_log)
        /\ \A i, j \in 1..Len(audit_log) :
              i # j => audit_log[i].prev_hash # audit_log[j].prev_hash

\* C2: every row written to audit_log, as any connection sees the table, has
\* hash = H(its stored timestamp, event_type, original_text, action_taken and
\* prev_hash), and its prev_hash is the hash of the row before it, or the
\* genesis sentinel for the first row.
C2_ChainInvariant ==
    \A t \in Threads :
        LET rows == audit_log \o pending[t]
        IN /\ \A i \in 1..Len(rows) : rows[i].hash = StoredHash(rows[i])
           /\ Linked(rows)

\* C3: verify_hash_chain() called with no limit after N appends, none of them
\* still in progress, returns valid = true, entries_checked = N and no invalid
\* entries, whatever keys the entries passed had.
C3_VerifyAfterAppends ==
    \A t \in Threads :
        (ret[t].kind = "verify" /\ ret[t].quiet /\ ret[t].appends = adds) =>
            /\ ret[t].verify.valid
            /\ ret[t].verify.entries_checked = adds
            /\ ret[t].verify.invalid_entries = <<>>

\* the full verify_hash_chain() of thread t, made after the file was changed,
\* reports the changed record
Reported(t) ==
    /\ ~ret[t].verify.valid
    /\ \E i \in 1..Len(ret[t].verify.invalid_entries) :
          ret[t].verify.invalid_entries[i].id = tampered.id

\* C4 as stated: after a change of any one stored column of a record that
\* verified, a full verify_hash_chain() returns valid = false with the
\* record's id among the invalid entries.
C4_AnyColumnChangeReported ==
    \A t \in Threads :
        (tampered.valid_before /\ ret[t].kind = "verify") => Reported(t)

\* C4, amended: after a change of the stored timestamp, event_type,
\* original_text, action_taken or hash of a record that verified, a full
\* verify_hash_chain() returns valid = false with the record's id among the
\* invalid entries.
C4_HashedColumnChangeReported ==
    \A t \in Threads :
        (/\ tampered.valid_before
         /\ tampered.field \in {"timestamp", "event_type", "original_text",
                                "action_taken", "hash"}
         /\ ret[t].kind = "verify") => Reported(t)

\* a verify made after the action_taken of a record that verified was changed
C4_Witness ==
    \E t \in Threads :
        /\ tampered.valid_before
        /\ tampered.field = "action_taken"
        /\ ret[t].kind = "verify"
        /\ Reported(t)

\* C5: the statistics increment of an append is written in the transaction
\* that holds the new row: the write is never refused on account of the
\* append's own uncommitted row, and the ledger has as many records as the
\* statistics count scans.
C5_OneTransaction ==
    /\ \A t \in Threads : pc[t] = "raised" => db_writer # AddConnection(t)
    /\ Len(audit_log) = TotalScans(statistics, DateOf(now))

\* the result of a scan_prompt call that returned an action
Decided(t) == ret[t].kind = "result" /\ "action" \in DOMAIN ret[t].result

\* the forms of a submitted text: the text and its redaction
FormsOf(prompt) ==
    {prompt, redact_pii(prompt, detect_pii(prompt, FALSE), RedactedLiteral)}

\* C6: the result of a scan that resolved to 'blocked' has safe_to_send false
\* and carries the submitted text in none of its text fields, neither as
\* submitted nor redacted.
C6_BlockedResultCarriesNoText ==
    \A t \in Threads :
        (Decided(t) /\ ret[t].result.action = "blocked") =>
            /\ ~ret[t].result.safe_to_send
            /\ ret[t].result.original_prompt \notin FormsOf(ret[t].args.prompt)
            /\ ret[t].result.redacted_prompt \notin FormsOf(ret[t].args.prompt)

\* C7: the action is 'blocked' iff some violation has action block, otherwise
\* 'warned' iff there is any violation, otherwise 'allowed'; it is the action
\* the same violations get with no findings; and safe_to_send is true iff the
\* action is not 'blocked'.
C7_DecisionResolution ==
    out # <<>> =>
        LET violations == arg.policy_violations
            blocks == \E i \in 1..Len(violations) : violations[i].action = "block"
        IN /\ out.action = "blocked" <=> blocks
           /\ out.action = "warned" <=> (~blocks /\ violations # <<>>)
           /\ out.action = "allowed" <=> violations = <<>>
           /\ out.action =
                 ScanResult(Decision(arg.prompt, <<>>, violations, TRUE, config)).action
           /\ out.safe_to_send <=> out.action # "blocked"

\* a decision 'warned' for violations none of which has action warn, with a
\* finding in the list of findings
C7_Witness ==
    /\ out # <<>>
    /\ arg.pii_matches # <<>>
    /\ Len(arg.policy_violations) >= 2
    /\ \A i \in 1..Len(arg.policy_violations) :
          arg.policy_violations[i].action \in {"allow", "redact"}
    /\ out.action = "warned"
    /\ out.safe_to_send

\* C8: a scan_prompt call that returned an action has appended a ledger record
\* with that action as action_taken and the submitted text as original_text.
C8_EveryDecisionRecorded ==
    \A t \in Threads :
        Decided(t) =>
            \E i \in 1..Len(audit_log) :
                /\ audit_log[i].action_taken = ret[t].result.action
                /\ audit_log[i].original_text = ret[t].args.prompt

\* the step in which the add_audit_entry call of thread t ends
Ends(t) == pc[t] # "idle" /\ pc'[t] = "idle"

\* C9: an add_audit_entry call ends in one of two ways: its record is
\* committed and its caller gets that record's hash, or its caller gets an
\* error and the ledger is as before the call's end, with no record of the
\* entry; the caller of a scan whose append failed gets an error result.  The
\* ledger holds one record for each call that returned a hash.
C9_NoSilentDrop ==
    /\ [](Len(audit_log) = hashes)
    /\ [][\A t \in Threads :
            Ends(t) =>
              \/ /\ ret'[t].kind \in {"hash", "result"}
                 /\ audit_log' = audit_log \o pending[t]
                 /\ pending[t] # <<>>
                 /\ pending[t][1].hash =
                       IF ret'[t].kind = "hash" THEN ret'[t].hash
                                                ELSE ret'[t].audit_hash
              \/ /\ ret'[t].kind = (IF call[t].via = "tool" THEN "error" ELSE "raised")
                 /\ audit_log' = audit_log
                 /\ pending'[t] = <<>>]_vars

\* an append by a direct caller and the append of a scan have both ended in
\* an error, and the ledger has no record
C9_Witness ==
    /\ ret[ServerThread].kind = "error"
    /\ \E t \in Threads : ret[t].kind = "raised"
    /\ AllIdle
    /\ audit_log = <<>>

\* C10: while one append only has been issued, on a ledger otherwise read
\* only, that append does not end in an error, and a get_audit_logs made once
\* it has ended returns its record first.
C10_SingleAppendSucceeds ==
    adds = 1 =>
        \A t \in Threads :
            /\ pc[t] # "raised"
            /\ ret[t].kind \notin {"raised", "error"}
            /\ (ret[t].kind = "logs" /\ ret[t].quiet /\ ret[t].appends = 1) =>
                  /\ ret[t].logs # <<>>
                  /\ ret[t].logs[1].hash = StoredHash(ret[t].logs[1])

\* C11: a scan_prompt call whose prompt is longer than max_prompt_length
\* returns the length error and nothing else, and leaves the ledger, the
\* statistics and every append as they were; a prompt of at most
\* max_prompt_length characters, one of exactly that length included, is
\* scanned: its decision is returned or handed to add_audit_entry.  (The
\* clock moves with each call; a scan that returns at once starts no append.)
C11_OversizedPromptRejected ==
    [][LET max == Get(config, "max_prompt_length", MaxPromptLen)
           answer == ret'[ServerThread]
           handed == call'[ServerThread]
       IN /\ (pc[ServerThread] = "idle" /\ pc'[ServerThread] = "add_wait") =>
                /\ Len(handed.args.prompt) <= max
                /\ "action" \in DOMAIN handed.result
          /\ (now' # now /\ adds' = adds) =>
                /\ answer.kind = "result"
                /\ IF Len(answer.args.prompt) > max
                   THEN /\ DOMAIN answer.result = {"error", "max_length"}
                        /\ UNCHANGED <<audit_log, last_id, statistics, pending, pc,
                                       call, lock, db_writer, hashes>>
                   ELSE "action" \in DOMAIN answer.result]_vars

C11_Witness ==
    /\ ret[ServerThread].kind = "result"
    /\ ret[ServerThread].args.prompt = T_over
    /\ "error" \in DOMAIN ret[ServerThread].result
    /\ adds = 1
    /\ audit_log = <<>>

\* the hash a stored row should have after the row stored just before it
HashAfter(rows, i) ==
    calculate_hash([timestamp |-> rows[i].timestamp,
                    event_type |-> rows[i].event_type,
                    original_text |-> rows[i].original_text,
                    action_taken |-> rows[i].action_taken],
                   IF i = 1 THEN Genesis ELSE rows[i - 1].hash)

\* the positions of the stored rows whose hash is not the one they should have
Mismatches(rows) == {i \in 1..Len(rows) : rows[i].hash # HashAfter(rows, i)}

\* C12: a full verify_hash_chain() reads every stored record, and its
\* invalid_entries lists, in ascending id order and each once, exactly the
\* records whose stored hash differs from the hash of their stored fields and
\* of the stored hash of the record before them ("genesis" for the first), with
\* that expected hash and the stored one; valid is true iff the list is empty.
C12_VerifyReportsEveryBreak ==
    \A t \in Threads :
        ret[t].kind = "verify" =>
            LET v == ret[t].verify
                bad == Mismatches(audit_log)
                n == Len(v.invalid_entries)
            IN /\ v.entries_checked = Len(audit_log)
               /\ n = Cardinality(bad)
               /\ \A j \in 1..n :
                     \E i \in bad :
                        /\ v.invalid_entries[j].id = audit_log[i].id
                        /\ v.invalid_entries[j].expected_hash = HashAfter(audit_log, i)
                        /\ v.invalid_entries[j].actual_hash = audit_log[i].hash
               /\ \A j \in 1..(n - 1) :
                     v.invalid_entries[j].id < v.invalid_entries[j + 1].id
               /\ v.valid <=> (v.invalid_entries = <<>>)

\* a verify that reported two breaks
C12_Witness ==
    \E t \in Threads :
        /\ ret[t].kind = "verify"
        /\ Len(ret[t].verify.invalid_entries) = 2
        /\ tampered.field = "hash"

\* C13: once cleanup_old_logs has deleted some records, all of them older
\* than the records it kept, and kept at least one, a full verify_hash_chain()
\* returns valid = false and reports the first surviving record.
C13_PurgeIsFlagged ==
    [][\A t \in Threads :
          (/\ VerifyHashChain(t)
           /\ tampered.field = "purged"
           /\ tampered.valid_before) =>
              /\ ~ret'[t].verify.valid
              /\ ret'[t].verify.invalid_entries # <<>>
              /\ ret'[t].verify.invalid_entries[1].id = audit_log[1].id
              /\ audit_log[1].id = tampered.id]_vars

\* a verify made after a purge that deleted the first of two records
C13_Witness ==
    \E t \in Threads :
        /\ tampered.field = "purged"
        /\ tampered.valid_before
        /\ tampered.id = 2
        /\ ret[t].kind = "verify"
        /\ ~ret[t].verify.valid
        /\ ret[t].verify.entries_checked = 1
        /\ audit_log[1].hash = StoredHash(audit_log[1])

\* C14: on a ledger in which a full verify_hash_chain() finds invalid entries,
\* an append that ends has succeeded: its caller has the hash, the new record
\* is the last one, chained to the stored hash of the record that was last,
\* and the invalid entries are the ones there were before.
C14_AppendAfterBreak ==
    [][\A t \in Threads :
          (Ends(t) /\ Mismatches(audit_log) # {}) =>
             /\ ret'[t].kind \in {"hash", "result"}
             /\ Len(audit_log') = Len(audit_log) + 1
             /\ audit_log'[Len(audit_log')].prev_hash = TailHash(audit_log)
             /\ Mismatches(audit_log') = Mismatches(audit_log)]_vars

\* thread t is inside the "with self.lock" block of add_audit_entry
InCriticalSection(t) == pc[t] \in {"locked", "inserted"}

\* C15: the operations of a ledger exclude one another: the thread inside
\* add_audit_entry's critical section is the one that holds the lock, and a
\* get_audit_logs, verify_hash_chain, get_statistics or cleanup_old_logs runs
\* only while no thread is inside it.  A get_audit_logs lists committed records only, each
\* with its hash and prev_hash, and on a ledger that nothing was deleted from a
\* verify_hash_chain checks every committed record and reports none.
C15_ConsistentSnapshot ==
    /\ [](\A t \in Threads : InCriticalSection(t) <=> lock = t)
    /\ [][\A t \in Threads :
            (\/ GetAuditLogs(t)
             \/ VerifyHashChain(t)
             \/ \E days \in StatisticsDays : GetStatistics(t, days)
             \/ \E days_to_keep \in DaysToKeep : CleanupOldLogs(t, days_to_keep)) =>
                \A u \in Threads : ~InCriticalSection(u)]_vars
    /\ [][\A t \in Threads :
            GetAuditLogs(t) =>
                \A i \in 1..Len(ret'[t].logs) :
                    LET r == ret'[t].logs[i]
                    IN /\ r.hash[1] = "sha256"
                       /\ r.prev_hash[1] \in {"genesis", "sha256"}
                       /\ \E k \in 1..Len(audit_log) :
                             audit_log[k].id = r.id /\ audit_log[k].hash = r.hash]_vars
    /\ [][\A t \in Threads :
            (VerifyHashChain(t) /\ tampered = NoTamper) =>
                /\ ret'[t].verify.valid
                /\ ret'[t].verify.entries_checked = Len(audit_log)]_vars

\* a verify made while an append was in progress, with the row that append
\* inserted still uncommitted
C15_Witness ==
    \E t, u \in Threads :
        /\ ret[t].kind = "verify"
        /\ ~ret[t].quiet
        /\ ret[t].verify.entries_checked > 0
        /\ pc[u] = "raised"
        /\ pending[u] # <<>>

\* logs is what a listing of the rows of log should be: the rows that satisfy
\* every filter given, the newest first, without the first offset of them and
\* limit of them at most
ListedFrom(logs, log, limit, offset, filters) ==
    LET matching ==
            {k \in 1..Len(log) :
                /\ "start_date" \in DOMAIN filters => log[k].timestamp >= filters.start_date
                /\ "end_date" \in DOMAIN filters => log[k].timestamp <= filters.end_date
                /\ "event_type" \in DOMAIN filters => log[k].event_type = filters.event_type
                /\ "action_taken" \in DOMAIN filters =>
                      log[k].action_taken = filters.action_taken}
        rest == Cardinality(matching) - offset
    IN /\ Len(logs) = IF rest < 0 THEN 0 ELSE IF rest < limit THEN rest ELSE limit
       /\ \A i \in 1..Len(logs) :
             \E k \in matching :
                /\ log[k].id = logs[i].id
                /\ log[k].hash = logs[i].hash
                /\ Cardinality({m \in matching : log[m].id > log[k].id}) = offset + i - 1

\* the text of the entry whose append thread u last ended
AppendedText(u) ==
    IF ret[u].kind \in {"hash", "raised"}
    THEN Get(ret[u].entry, "original_text", NoText)
    ELSE ret[u].args.prompt

\* C16: get_audit_logs(limit=10) returns the stored records newest first, ten
\* at most; made when an append has ended and none is in progress, it returns
\* the record of an entry just appended first.
C16_ListedNewestFirst ==
    [][\A t \in Threads :
          GetAuditLogs(t) =>
             /\ ListedFrom(ret'[t].logs, audit_log, 10, 0, EmptyDict)
             /\ (adds >= 1 /\ AllIdle) =>
                   /\ ret'[t].logs # <<>>
                   /\ \E u \in Threads :
                         /\ ret[u].kind \in {"hash", "raised", "error", "result"}
                         /\ ret'[t].logs[1].original_text = AppendedText(u)]_vars

RECURSIVE SumTo(_, _, _)
SumTo(stats, d, counter) ==
    IF d = 0 THEN 0
    ELSE (IF d \in DOMAIN stats THEN stats[d][counter] ELSE 0)
         + SumTo(stats, d - 1, counter)

\* the number of findings or violations the rows hold in a JSON column
RECURSIVE Listed(_, _)
Listed(rows, column) ==
    IF rows = <<>> THEN 0
    ELSE Len(JsonLoads(Head(rows)[column])) + Listed(Tail(rows), column)

\* C18: a statistics row changes only in the step that commits an appended
\* record; and once the appends issued have ended, the statistics rows count
\* them: total_scans is their number and the number of records, pii_detections
\* and policy_violations are the numbers of findings and violations the
\* records hold, blocked_prompts is the number of records with action_taken
\* 'blocked'.
C18_StatisticsTrackAppends ==
    /\ [][statistics' # statistics =>
            \E t \in Threads :
               UpdateStatisticsAndCommit(t) /\ Len(audit_log') = Len(audit_log) + 1]_vars
    /\ []((adds >= 1 /\ AllIdle) =>
            LET d == DateOf(now)
            IN /\ SumTo(statistics, d, "total_scans") = adds
               /\ SumTo(statistics, d, "total_scans") = Len(audit_log)
               /\ SumTo(statistics, d, "pii_detections") = Listed(audit_log, "pii_detected")
               /\ SumTo(statistics, d, "policy_violations") =
                     Listed(audit_log, "policy_violations")
               /\ SumTo(statistics, d, "blocked_prompts") =
                     Len(SelectSeq(audit_log, LAMBDA row : row.action_taken = "blocked")))

\* C19: get_statistics(days) returns as summary the sums of the four counters
\* over the statistics rows dated from today - days + 1 to today, and as daily
\* breakdown those rows and no other, the latest first; a day without a row
\* adds nothing, and a window without rows gives sums of zero.
C19_StatisticsWindow ==
    out # <<>> =>
        LET first == arg.today - arg.days + 1
            before == IF first > 1 THEN first - 1 ELSE 0
            Sum(counter) == SumTo(statistics, arg.today, counter)
                            - (IF before < arg.today
                               THEN SumTo(statistics, before, counter)
                               ELSE SumTo(statistics, arg.today, counter))
            window == {d \in DOMAIN statistics : first <= d /\ d <= arg.today}
            daily == out.daily_breakdown
        IN /\ out.summary.total_scans = Sum("total_scans")
           /\ out.summary.total_pii_detections = Sum("pii_detections")
           /\ out.summary.total_policy_violations = Sum("policy_violations")
           /\ out.summary.total_blocked = Sum("blocked_prompts")
           /\ window = {} => out.summary.total_scans = 0
           /\ {daily[i].date : i \in 1..Len(daily)} = window
           /\ \A i \in 1..(Len(daily) - 1) : daily[i].date > daily[i + 1].date
           /\ \A i \in 1..Len(daily) :
                 /\ daily[i].scans = statistics[daily[i].date].total_scans
                 /\ daily[i].pii = statistics[daily[i].date].pii_detections
                 /\ daily[i].violations = statistics[daily[i].date].policy_violations
                 /\ daily[i].blocked = statistics[daily[i].date].blocked_prompts

\* a window of two days read from a table with a row for each of three days
C19_Witness ==
    /\ out # <<>>
    /\ DOMAIN statistics = 1..MaxDays
    /\ arg.days = 2
    /\ arg.today = MaxDays
    /\ Len(out.daily_breakdown) = 2
    /\ out.summary.total_scans > 0

\* the sum of the digits of a number counted from its right end, every
\* second of them doubled and, above 9, lessened by 9
RECURSIVE Checksum(_, _)
Checksum(digits, k) ==
    IF k > Len(digits) THEN 0
    ELSE LET n == DigitValue(digits[Len(digits) + 1 - k])
             term == IF k % 2 = 1 THEN n ELSE IF 2 * n > 9 THEN 2 * n - 9 ELSE 2 * n
         IN term + Checksum(digits, k + 1)

\* the digits of a number written with or without separators
DigitsOf(number) == SelectSeq(number, LAMBDA c : c \in Digits)

C22_SeparatorsAndNonDigits ==
    out # <<>> =>
        LET d == Stripped(arg)
        IN IF d # <<>> /\ \A i \in 1..Len(d) : d[i] \in Digits
           THEN /\ out.raised = None
                /\ out.valid <=> (Checksum(d, 1) % 10 = 0)
           ELSE /\ out.raised = None
                /\ ~out.valid

\* the findings of one category among the findings of a scan
OfType(matches, type) == SelectSeq(matches, LAMBDA m : m.type = type)

\* the card number is written in the text
Holds(text, number) == \E i \in 1..Len(text) : SubSeq(text, i, i + Len(number) - 1) = number

\* a credit_card match is a finding iff its checksum is divisible by 10
CardsGated ==
    LET cards == OfType(out.matches, "credit_card")
        found == Finditer("pii:credit_card", arg, 1)
    IN /\ \A k \in 1..Len(found) :
             (\E i \in 1..Len(cards) : /\ cards[i].start = found[k].start
                                        /\ cards[i].end = found[k].end)
             <=> (Checksum(DigitsOf(found[k].group), 1) % 10 = 0)
       /\ \A i \in 1..Len(cards) :
             \E k \in 1..Len(found) : /\ cards[i].start = found[k].start
                                       /\ cards[i].end = found[k].end

C24_FindingsOrdered ==
    (out # <<>> /\ out.op = "detect_pii") =>
        LET ms == out.matches
        IN /\ \A i \in 1..Len(ms) :
                 /\ 0 <= ms[i].start
                 /\ ms[i].start < ms[i].end
                 /\ ms[i].end <= Len(arg)
           /\ \A i, j \in 1..Len(ms) :
                 i < j =>
                    /\ ms[i].start <= ms[j].start
                    /\ ms[i].type = ms[j].type => ms[i].end <= ms[j].start

\* a scan with an email finding before a social security number, found in
\* the other order, and a scan with two findings of one category
C24_Witness ==
    /\ out # <<>>
    /\ out.op = "detect_pii"
    /\ \/ /\ arg = T_email_ssn
          /\ Len(out.matches) = 2
          /\ out.matches[1].type = "email"
          /\ out.matches[2].type = "ssn"
       \/ /\ arg = T_emails
          /\ Len(out.matches) = 2
          /\ out.matches[1].end <= out.matches[2].start

\* C25: redact_pii with an empty list of findings returns the text as it is,
\* for every redaction style.
C25_RedactNothing ==
    (out # <<>> /\ out.op = "redact_pii" /\ out.matches = <<>>) =>
        out.redacted = arg

\* a text with a social security number redacted with no findings
C25_Witness ==
    /\ out # <<>>
    /\ out.op = "redact_pii"
    /\ out.matches = <<>>
    /\ out.redaction_style = RedactedXXX
    /\ arg = T_ssn
    /\ out.redacted = T_ssn

\* C26: under the style "[REDACTED-XXX]" a finding of n characters is replaced
\* by '[', n 'X' characters and ']', with at least one 'X'.
C26_LengthPreservingFiller ==
    (/\ out # <<>>
     /\ out.op = "redact_pii"
     /\ out.redaction_style = RedactedXXX
     /\ Len(out.matches) = 1) =>
        LET m == out.matches[1]
            n == m.end - m.start
        IN /\ n >= 1
           /\ out.redacted = SubSeq(arg, 1, m.start)
                                \o <<"[">> \o [i \in 1..n |-> "X"] \o <<"]">>
                                \o SubSeq(arg, m.end + 1, Len(arg))

\* the names of the rules in declaration order: the built-in rules, the
\* extended rules, the caller's rules with new names
DeclaredNames(extended, custom_policies) ==
    LET base == [i \in 1..Len(POLICY_RULES) |-> POLICY_RULES[i][1]]
                \o (IF extended
                    THEN [i \in 1..Len(EXTENDED_POLICIES) |-> EXTENDED_POLICIES[i][1]]
                    ELSE <<>>)
    IN base \o SelectSeq([i \in 1..Len(custom_policies) |-> custom_policies[i][1]],
                         LAMBDA n : \A j \in 1..Len(base) : base[j] # n)

\* the rule that applies under a name: the caller's, else the extended, else
\* the built-in one
RuleNamed(name, extended, custom_policies) ==
    LET In(table) == \E i \in 1..Len(table) : table[i][1] = name
        Of(table) == table[CHOOSE i \in 1..Len(table) : table[i][1] = name][2]
    IN IF In(custom_policies) THEN Of(custom_policies)
       ELSE IF extended /\ In(EXTENDED_POLICIES) THEN Of(EXTENDED_POLICIES)
       ELSE Of(POLICY_RULES)

\* the indexes of the rule's keywords that the text contains, whatever the case
KeywordHits(rule, text) ==
    LET keywords == Get(rule, "keywords", <<>>)
    IN {k \in 1..Len(keywords) : IsSubstring(LowerText(keywords[k]), LowerText(text))}

PatternHits(rule, text) ==
    LET patterns == Get(rule, "regex_patterns", <<>>)
    IN {k \in 1..Len(patterns) : ReSearch(patterns[k], text)}

C29_ConfigureSetsEveryKey ==
    [][\A args \in ConfigureArgs :
          Configure(ServerThread, args) =>
             \A k \in DOMAIN args : k \in DOMAIN config' /\ config'[k] = args[k]]_vars

\* every row of the first list is a row of the second, as it is there
RowsOf(rows, log) == \A i \in 1..Len(rows) : \E j \in 1..Len(log) : log[j] = rows[i]

\* C30: the ledger is append-only.  A retention purge leaves rows of the
\* ledger, each as it was, and no other; every other step (of an append, a
\* listing, a verification, a statistics query or an export) leaves every
\* committed row in its place and as it was, with rows added after them at
\* most.
C30_AppendOnly ==
    [][IF \E t \in Threads : \E days_to_keep \in DaysToKeep :
             CleanupOldLogs(t, days_to_keep)
       THEN /\ RowsOf(audit_log', audit_log)
            /\ Len(audit_log') <= Len(audit_log)
       ELSE /\ Len(audit_log) <= Len(audit_log')
            /\ SubSeq(audit_log', 1, Len(audit_log)) = audit_log]_vars

\* a ledger of which a purge has removed a record and left another, after an
\* export or an append that ended
C30_Witness ==
    /\ tampered.field = "purged"
    /\ audit_log # <<>>
    /\ \A t \in Threads : pc[t] = "idle"
    /\ \E t \in Threads : ret[t].kind \in {"exported", "raised"}

\* the ids verify_hash_chain reports for a ledger, in the order reported
InvalidIds(log) ==
    LET invalid_entries == verify_hash_chain(log, 0).invalid_entries
    IN [j \in 1..Len(invalid_entries) |-> invalid_entries[j].id]

NonOverlapping(text, matches) ==
    /\ \A j \in 1..Len(matches) :
          0 <= matches[j].start /\ matches[j].start < matches[j].end
                                /\ matches[j].end <= Len(text)
    /\ \A i, j \in 1..Len(matches) :
          i # j => \/ matches[i].end <= matches[j].start
                   \/ matches[j].end <= matches[i].start

\* the text read from position i on, each finding's span replaced by its
\* placeholder and every other character kept
RECURSIVE SpansReplaced(_, _, _, _)
SpansReplaced(text, matches, redaction_style, i) ==
    IF i >= Len(text) THEN <<>>
    ELSE IF \E j \in 1..Len(matches) : matches[j].start = i
    THEN LET match == matches[CHOOSE j \in 1..Len(matches) : matches[j].start = i]
         IN Replacement(match, redaction_style)
            \o SpansReplaced(text, matches, redaction_style, match.end)
    ELSE <<text[i + 1]>> \o SpansReplaced(text, matches, redaction_style, i + 1)

\* C32: for a list of findings no two of which overlap, passed in any order,
\* redact_pii returns the text with each finding's span replaced by its
\* placeholder and every other character kept in place; the list in the
\* opposite order gives the same text.
C32_RedactsEverySpan ==
    (out # <<>> /\ out.op = "redact_pii" /\ NonOverlapping(arg, out.matches)) =>
        /\ out.redacted = SpansReplaced(arg, out.matches, out.redaction_style, 0)
        /\ out.redacted = redact_pii(arg, Reversed(out.matches), out.redaction_style)

\* two findings passed in the order of the text, and in the opposite order,
\* replaced by placeholders that are not as long as the spans
C32_Witness ==
    /\ out # <<>> /\ out.op = "redact_pii"
    /\ NonOverlapping(arg, out.matches)
    /\ Len(out.matches) = 2
    /\ out.matches[1].start > out.matches[2].start
    /\ out.redaction_style = RedactedType
    /\ out.redacted # arg

\* the two entries have the same value, or both none, under the key
SameField(first, second, key) ==
    /\ (key \in DictKeys(first)) = (key \in DictKeys(second))
    /\ key \in DictKeys(first) => DictOf(first)[key] = DictOf(second)[key]

\* C33: two entries with the same timestamp, event_type, original_text and
\* action_taken, hashed after the same previous hash, get the same hash,
\* whatever their other fields are and in whatever order the fields were
\* written.
C33_HashOfFiveFields ==
    (/\ out # <<>>
     /\ \A key \in {"timestamp", "event_type", "original_text", "action_taken"} :
           SameField(arg.first, arg.second, key)
     /\ arg.prev_first = arg.prev_second) =>
        out.first = out.second

\* two entries hashed alike that differ in user_id and in the order of their
\* fields
C33_Witness ==
    /\ out # <<>>
    /\ out.first = out.second
    /\ "user_id" \in DictKeys(arg.first) /\ "user_id" \in DictKeys(arg.second)
    /\ DictOf(arg.first)["user_id"] # DictOf(arg.second)["user_id"]
    /\ arg.first[1][1] # arg.second[1][1]

\* C34: verify_integrity with a positive limit checks the min(limit, N)
\* records of lowest id and no other: entries_checked is min(limit, N), the
\* records reported are the ones of that prefix whose stored hash is not the
\* expected one, and valid is true when there is none, whatever the records
\* after the prefix hold; without a limit the tool passes 100; with limit 0
\* all N records are checked.
C34_LimitChecksPrefix ==
    LET answer == ret[ServerThread]
    IN answer.kind = "verify_integrity" =>
         LET limit == IF "limit" \in DOMAIN answer.args THEN answer.args.limit ELSE 100
             N == Len(audit_log)
             checked == IF limit = 0 \/ N < limit THEN N ELSE limit
             prefix == SubSeq(audit_log, 1, checked)
             v == answer.result
         IN /\ v.entries_checked = checked
            /\ Len(v.invalid_entries) = Cardinality(Mismatches(prefix))
            /\ \A j \in 1..Len(v.invalid_entries) :
                  \E i \in Mismatches(prefix) :
                     v.invalid_entries[j].id = audit_log[i].id
            /\ v.valid <=> Mismatches(prefix) = {}

\* a verify with limit 1 of two records, the second of them changed in the
\* file, that answered valid
C34_Witness ==
    /\ ret[ServerThread].kind = "verify_integrity"
    /\ ret[ServerThread].args = [limit |-> 1]
    /\ Len(audit_log) = 2
    /\ tampered.id = audit_log[2].id
    /\ tampered.field \in {"hash", "original_text"}
    /\ Mismatches(audit_log) = {2}
    /\ ret[ServerThread].result.entries_checked = 1
    /\ ret[ServerThread].result.valid

\* C35: a cleanup_old_logs that returns has deleted the records stamped
\* before the cutoff and no other, and returns their number; the records
\* kept hold what they held, hash and prev_hash included, and the statistics
\* are as they were.  No id of a deleted record is given to a later record:
\* the purge leaves the highest id ever given as it was, that id never
\* decreases and no stored record has a greater one, and a record inserted
\* gets a greater one.
C35_PurgeDeletesOldRecordsOnly ==
    [][/\ \A t \in Threads : \A days_to_keep \in DaysToKeep :
             (CleanupOldLogs(t, days_to_keep) /\ ret'[t].kind = "deleted") =>
                LET cutoff_date == now - 2 * days_to_keep
                    old == {i \in 1..Len(audit_log) :
                               audit_log[i].timestamp < cutoff_date}
                    kept == {i \in 1..Len(audit_log) : i \notin old}
                IN /\ ret'[t].deleted = Cardinality(old)
                   /\ Len(audit_log') = Cardinality(kept)
                   /\ \A i \in kept :
                         audit_log'[Cardinality({j \in kept : j <= i})] = audit_log[i]
                   /\ statistics' = statistics
                   /\ last_id' = last_id
       /\ last_id' >= last_id
       /\ \A i \in 1..Len(audit_log) : audit_log[i].id <= last_id
       /\ \A t \in Threads :
             (pending[t] = <<>> /\ pending'[t] # <<>>) => pending'[t][1].id > last_id]_vars

\* a purge that deleted one of two records, the statistics not empty, and a
\* record inserted after it
C35_Witness ==
    /\ tampered.field = "purged"
    /\ Len(audit_log) = 1
    /\ audit_log[1].id = 2
    /\ statistics # EmptyDict
    /\ \E t \in Threads : /\ pending[t] # <<>>
                           /\ pending[t][1].id = 3
                           /\ pending[t][1].prev_hash = audit_log[1].hash

\* C36: an append that ends on a ledger a purge has emptied has succeeded:
\* its caller has the hash, the ledger holds the new record alone, chained to
\* "genesis", and a full verify_hash_chain of it is valid.
C36_NewChainAfterFullPurge ==
    [][\A t \in Threads :
          (/\ Ends(t)
           /\ audit_log = <<>>
           /\ tampered.field = "purged" /\ tampered.id = 0) =>
             /\ ret'[t].kind = "hash"
             /\ Len(audit_log') = 1
             /\ audit_log'[1].prev_hash = Genesis
             /\ verify_hash_chain(audit_log', 0).valid]_vars

\* C37: once the appends issued through two instances opened on one file
\* have ended, the ledger holds one record for each of them, no two records
\* have the same prev_hash, and a full verify_hash_chain is valid.
C37_TwoInstancesOneChain ==
    (adds >= 1 /\ AllIdle) =>
        /\ Len(audit_log) = adds
        /\ \A i, j \in 1..Len(audit_log) :
              i # j => audit_log[i].prev_hash # audit_log[j].prev_hash
        /\ verify_hash_chain(audit_log, 0).valid

\* C38: self.lock is held by a thread inside add_audit_entry's with block
\* and by no other; it is taken only when it is free, never by the thread
\* that holds it; the thread that leaves the block, by return or by an
\* exception, leaves the lock free; and a list, verify, statistics, purge or
\* export (any answer but that of a scan, which takes no lock before its
\* append) finds the lock free and leaves it free.  So the lock is free
\* whenever no thread is inside the block, and the next operation can enter.
C38_LockAlwaysReleased ==
    [][/\ \A t \in Threads : lock = t => InCriticalSection(t)
       /\ (lock' # lock /\ lock' # NoThread) =>
              /\ lock = NoThread
              /\ pc[lock'] = "add_wait"
       /\ \A t \in Threads :
             (InCriticalSection(t) /\ pc'[t] \notin {"locked", "inserted"}) =>
                 lock' = NoThread
       /\ (\A t \in Threads : pc'[t] \notin {"locked", "inserted"}) => lock' = NoThread
       /\ \A t \in Threads :
             (/\ pc[t] = "idle" /\ pc'[t] = "idle"
              /\ ret'[t] # ret[t] /\ ret'[t].kind # "result") =>
                 lock = NoThread /\ lock' = NoThread]_vars

\* a caller's first append has failed, and that caller is inside the with
\* block of its second append
C38_Witness ==
    /\ adds = 2
    /\ hashes = 0
    /\ \E t \in Threads : /\ pc[t] = "locked"
                           /\ lock = t
                           /\ \A u \in Threads : u # t => pc[u] = "idle"

\* C39: a check_compliance, redact_pii, get_statistics, verify_integrity or
\* export_audit_logs leaves the records and the statistics as they were, an
\* export in a format other than json and csv included, which is answered
\* with an error; check_compliance answers compliant exactly for a text with
\* no finding and no violation.
C39_ToolsOnlyRead ==
    [][LET answer == ret'[ServerThread]
       IN (answer # ret[ServerThread] /\ answer.kind # "none") =>
            /\ answer.kind \in {"check_compliance", "redact_pii", "get_statistics",
                                 "verify_integrity", "export_audit_logs", "error"}
            /\ UNCHANGED <<audit_log, last_id, statistics>>
            /\ answer.kind = "error" <=>
                  /\ "format" \in DOMAIN answer.args
                  /\ answer.args.format \notin {"json", "csv"}
            /\ answer.kind = "error" => answer.tool = "export_audit_logs"
            /\ answer.kind = "check_compliance" =>
                  (answer.result.compliant <=>
                     /\ detect_pii(answer.args.text,
                                   Get(config, "extended_patterns", FALSE)) = <<>>
                     /\ check_policies(answer.args.text,
                                       Get(config, "extended_policies", FALSE),
                                       <<>>) = <<>>)]_vars

\* on a ledger with a record and statistics: an export in format xml answered
\* with an error, or a check_compliance that found a text not compliant
C39_Witness ==
    /\ audit_log # <<>>
    /\ statistics # EmptyDict
    /\ \/ /\ ret[ServerThread].kind = "error"
          /\ ret[ServerThread].args.format = "xml"
       \/ /\ ret[ServerThread].kind = "check_compliance"
          /\ ret[ServerThread].args.text = T_email_sue
          /\ ~ret[ServerThread].result.compliant

====
